---- MODULE Spec2Model ----
(***************************************************************************)
(* Verification model of the tidy3d inverse-design optimizer loop          *)
(* (tidy3d/plugins/invdes/optimizer.py) and of the design-space sampling   *)
(* methods and their batch dispatch (tidy3d/plugins/design/method.py,      *)
(* tidy3d/plugins/design/design.py).                                       *)
(***************************************************************************)
EXTENDS Integers, Sequences, FiniteSets, TLC

(***************************************************************************)
(* Bounds of the model.                                                    *)
(***************************************************************************)
\* largest value of AbstractOptimizer.num_steps explored (pd.PositiveInt)
MaxSteps == 2

\* the optimizer runs (calls of continue_run) of one exploration
Runs == {1, 2, 3}

\* number of continue_run calls that may be in progress at the same time
MaxActive == 2

\* starting parameter vectors handed to run(params0)
Params0 == {0, 5}

(***************************************************************************)
(* The objective function of the design (InverseDesign.objective_fn) is    *)
(* deterministic: value, gradient and the auxiliary data are functions of  *)
(* the parameters alone.  One scalar parameter, objective -(p - 2)^2.      *)
(***************************************************************************)
objective_val(p) == 0 - (p - 2) * (p - 2)

objective_grad(p) == 0 - 2 * (p - 2)

aux_penalty(p) == IF p < 0 THEN 0 - p ELSE p

aux_post_process_val(p) == objective_val(p) + aux_penalty(p)

aux_simulation(p) == <<"sim", p>>

\* the auxiliary data is not taken from the evaluation at p
val_and_grad_fn_no_aux(p) ==
    [val |-> objective_val(p), grad |-> objective_grad(p),
     penalty |-> 0, post_process_val |-> objective_val(p),
     simulation |-> aux_simulation(0)]

\* (val, aux_data), grad = val_and_grad_fn(params)
val_and_grad_fn(p) ==
    [val |-> objective_val(p), grad |-> objective_grad(p),
     penalty |-> aux_penalty(p), post_process_val |-> aux_post_process_val(p),
     simulation |-> aux_simulation(p)]

(***************************************************************************)
(* The gradient transform: an Adam rule in integer arithmetic              *)
(* (b1 = b2 = 1/2, eps = 1, floor division).  State {mu, nu, count}.       *)
(***************************************************************************)
learning_rate == 4

RECURSIVE Pow2(_)
Pow2(n) == IF n = 0 THEN 1 ELSE 2 * Pow2(n - 1)

RECURSIVE ISqrtFrom(_, _)
ISqrtFrom(x, k) == IF (k + 1) * (k + 1) > x THEN k ELSE ISqrtFrom(x, k + 1)

ISqrt(x) == ISqrtFrom(x, 0)

\* optax_optimizer.init(params0): zeroed moment accumulators
optax_init(p) == [mu |-> 0, nu |-> 0, count |-> 0]

\* optax_optimizer.update(g, opt_state, params) -> (updates, new opt_state)
optax_update(g, st) ==
    LET mu    == (st.mu + g) \div 2
        nu    == (st.nu + g * g) \div 2
        count == st.count + 1
        m_hat == (mu * Pow2(count)) \div (Pow2(count) - 1)
        v_hat == (nu * Pow2(count)) \div (Pow2(count) - 1)
    IN  [updates   |-> (0 - learning_rate * m_hat) \div (ISqrt(v_hat) + 1),
         opt_state |-> [mu |-> mu, nu |-> nu, count |-> count]]

\* optax.apply_updates(params, updates)
apply_updates(p, u) == p + u

(***************************************************************************)
(* InverseDesignResult: the seven per-field sequences of the history.      *)
(* ckpts is a history variable of the model: how many times the lineage of *)
(* the object passed through a load of the checkpoint file.                *)
(***************************************************************************)
NoResult ==
    [exists |-> FALSE, ckpts |-> 0, params |-> <<>>, opt_state |-> <<>>,
     objective_fn_val |-> <<>>, grad |-> <<>>, penalty |-> <<>>,
     post_process_val |-> <<>>, simulation |-> <<>>]

\* InverseDesignResult(design=self.design, opt_state=[opt_state], params=[params0])
initialize_result_wrong(p0) ==
    [NoResult EXCEPT !.exists = TRUE, !.params = <<p0>>,
                     !.opt_state = <<optax_init(p0)>>,
                     !.objective_fn_val = <<objective_val(p0)>>,
                     !.grad = <<objective_grad(p0)>>,
                     !.penalty = <<aux_penalty(p0)>>,
                     !.post_process_val = <<aux_post_process_val(p0)>>,
                     !.simulation = <<aux_simulation(p0)>>]

initialize_result(p0) ==
    [NoResult EXCEPT !.exists = TRUE, !.params = <<p0>>,
                     !.opt_state = <<optax_init(p0)>>]

\* result.get_final(key): the last entry of the sequence
get_final(seq) == seq[Len(seq)]


(***************************************************************************)
(* State of the optimizer runs.                                            *)
(***************************************************************************)
VARIABLES
    params0,     \* the starting parameters handed to run / initialize_result
    heap,        \* the history objects, by identity
    pc,          \* position of each continue_run call
    src,         \* the result object each call was started from
    num_steps,   \* self.num_steps of the optimizer of each call
    history_save_fname,  \* the optimizer's checkpoint file name, or "None"
    loop_index,  \* the loop variable of each call
    params,      \* local variable params of each call
    opt_state,   \* local variable opt_state of each call
    grad,        \* local variable grad of each call (0 before the first evaluation)
    href,        \* the object the local variable history refers to
    shown,       \* the result last handed to display_fn by each call
    cause,       \* why a call raised: "eval", "save" or "none"
    nEvals,      \* objective/gradient evaluations performed by each call
    nUpdates,    \* parameter updates performed by each call

    \* state of the sampling run and of its batch dispatch
    bpc,          \* position of the sampling run
    b_mode,       \* which code path dispatches: see Modes
    fn_args,      \* the argument mappings of the batch, in submission order
    sim_counter,  \* the sim_counter argument of fn_combined / _fn_mid
    jobs,         \* the simulations handed to the dispatcher, by job name
    completed,    \* the job names in the order the dispatcher completed them
    pre_out,      \* what the dispatcher returned, by job name
    processed,    \* the post-processed results, in the order they were made

    \* state of a call of MethodGrid.sample
    g_pc,           \* position of the call
    vals_each_dim,  \* the discretized domain of each parameter, by name
    grid_args,      \* the argument mappings the call returned

    \* state of a call of Method.run (one sweep)
    s_pc,              \* position of the call
    method,            \* the class of the method object
    parameters,        \* the design parameters handed to run
    pre_kind,          \* what the user's pre_fn is: see PreKinds
    sampler,           \* the field sampler of a MethodRandomCustom
    initial_iter,      \* the field initial_iter of a MethodBayOpt
    n_iter,            \* the field n_iter of a MethodBayOpt
    run_loc,           \* local variable run_loc
    raw_args,          \* the points as sampled or suggested, before _force_int
    next_point,        \* local variable next_point of MethodBayOpt.run
    population,        \* ga_instance.population: the solutions of the generation
    store_parameters,  \* module global _store_parameters
    store_fitness,     \* module global _store_fitness
    generations_completed,  \* ga_instance.generations_completed
    arg_list,          \* local variable fn_args / arg_list: the points of the sweep
    calls,             \* the argument mappings pre_fn was called with, in order
    results,           \* local variable results / init_output: outputs to post-process
    processed_result,  \* local variable processed_result: outputs of post_fn
    registered,        \* opt.res of the BayesianOptimization object
    outcome,           \* what run returned or raised; Pending while it runs

    \* state of the derivative computation of one structure
    scipy_size1,   \* what the installed interpolator does on a one-sample axis
    infos,         \* the DerivativeInfo objects, by identity
    surface_mesh,  \* the DerivativeSurfaceMesh handed to grad_surfaces
    interp_kwargs, \* the axes evaluate_flds_at last interpolated along
    sum_dims,      \* the axes evaluate_flds_at last summed over
    components,    \* what evaluate_flds_at(E_fwd, centers) last returned
    vjps,          \* what grad_surfaces returned
    d_done,        \* the operations performed on the DerivativeInfo so far
    info_created,  \* the DerivativeInfo as it was constructed
    paths_arg,     \* the argument of the call of updated_paths

    \* state of a call of least_squares
    ls_pc,           \* position of the call
    ls_func,         \* the model function func
    ls_x,            \* the independent variable data x (one sample)
    ls_y,            \* the dependent variable data y (one sample)
    ls_tol,          \* the argument tol
    max_iterations,  \* the argument max_iterations
    ls_params,       \* local variable params
    ls_delta,        \* local variable delta
    ls_iterations,   \* passes of the loop body made so far
    ls_broke,        \* the loop was left by its break

    \* state of a call of Method._check_pre_output
    cp_pc,         \* position of the call
    cp_calls_web,  \* the source of pre_fn contains "web.Batch(" or "web.run("
    cp_result,     \* what pre_fn returns at the lower-bound point
    cp_outcome,    \* what the call handed to its caller

    \* state of a call of DesignSpace._fn_mid
    m_pc,          \* position of the call
    m_pre_out,     \* the argument pre_out
    m_counter,     \* the argument sim_counter
    m_names,       \* the task names handed to Batch(simulations=named_sims)
    m_outcome,     \* what the call handed to its caller

    \* two calls of MethodGenAlg.run in one process; they share the module
    \* globals _store_parameters and _store_fitness (store_parameters and
    \* store_fitness above) and _param_keys
    param_keys,    \* the module global _param_keys
    ga_pc,         \* position of each call
    ga_names,      \* the parameter names of each call
    ga_gens,       \* the generations each call has completed
    ga_ret         \* what each call returned

optVars ==
    <<params0, heap, pc, src, num_steps, history_save_fname, loop_index, params,
      opt_state, grad, href, shown, cause, nEvals, nUpdates>>

batchVars == <<bpc, b_mode, fn_args, sim_counter, jobs, completed, pre_out, processed>>

gridVars == <<g_pc, vals_each_dim, grid_args>>

sweepVars ==
    <<s_pc, method, parameters, pre_kind, sampler, initial_iter, n_iter, run_loc, raw_args,
      next_point, population, store_parameters, store_fitness, generations_completed,
      arg_list, calls, results, processed_result, registered, outcome>>

derivVars ==
    <<scipy_size1, infos, surface_mesh, interp_kwargs, sum_dims, components, vjps, d_done,
      info_created, paths_arg>>

lsqVars ==
    <<ls_pc, ls_func, ls_x, ls_y, ls_tol, max_iterations, ls_params, ls_delta,
      ls_iterations, ls_broke>>

checkVars == <<cp_pc, cp_calls_web, cp_result, cp_outcome>>

midVars == <<m_pc, m_pre_out, m_counter, m_names, m_outcome>>

raceVars == <<param_keys, ga_pc, ga_names, ga_gens, ga_ret>>

pluginVars == <<lsqVars, checkVars, midVars, raceVars>>

designVars == <<gridVars, sweepVars, derivVars, pluginVars>>

vars == <<optVars, batchVars, designVars>>

\* MethodGrid.sample has not been called
GridIdle == g_pc = "idle" /\ vals_each_dim = <<>> /\ grid_args = <<>>

\* run has neither returned nor raised
Pending == [kind |-> "none", exc |-> "None", value |-> <<>>]

\* what the caller of a call gets: a raised exception or a returned value
Raise(exc) == [kind |-> "raised", exc |-> exc, value |-> <<>>]

Returns(v) == [kind |-> "returned", exc |-> "None", value |-> v]

\* the default None of the field sampler
NoSampler ==
    [is_none |-> TRUE, has_random |-> FALSE, is_ndarray |-> FALSE, ndim |-> 0,
     rows_n |-> FALSE, d |-> 0, in_01 |-> FALSE]

\* no method object exists
SweepIdle ==
    /\ s_pc = "idle" /\ method = "None" /\ parameters = <<>> /\ pre_kind = "None"
    /\ sampler = NoSampler /\ initial_iter = 0 /\ n_iter = 0 /\ run_loc = "None"
    /\ raw_args = <<>> /\ arg_list = <<>> /\ calls = <<>> /\ results = <<>>
    /\ next_point = <<>> /\ population = <<>>
    /\ store_parameters = <<>> /\ store_fitness = <<>> /\ generations_completed = 0
    /\ processed_result = <<>> /\ registered = <<>> /\ outcome = Pending

\* no DerivativeInfo exists
DerivIdle ==
    /\ scipy_size1 = "None" /\ infos = <<>> /\ surface_mesh = <<>>
    /\ interp_kwargs = {} /\ sum_dims = {} /\ components = <<>> /\ vjps = <<>>
    /\ d_done = {} /\ info_created = <<>> /\ paths_arg = <<>>

\* least_squares has not been called
LsqIdle ==
    /\ ls_pc = "idle" /\ ls_func = "None" /\ ls_x = 0 /\ ls_y = 0 /\ ls_tol = 0
    /\ max_iterations = 0 /\ ls_params = 0 /\ ls_delta = 0 /\ ls_iterations = 0
    /\ ls_broke = FALSE

\* _check_pre_output has not been called
CheckIdle ==
    cp_pc = "idle" /\ cp_calls_web = FALSE /\ cp_result = <<>> /\ cp_outcome = <<>>

\* _fn_mid has not been called
MidIdle ==
    /\ m_pc = "idle" /\ m_pre_out = <<>> /\ m_counter = 0 /\ m_names = <<>>
    /\ m_outcome = <<>>

\* no concurrent calls of MethodGenAlg.run
RaceIdle ==
    /\ param_keys = <<>> /\ ga_pc = <<>> /\ ga_names = <<>> /\ ga_gens = <<>>
    /\ ga_ret = <<>>

PluginIdle == LsqIdle /\ CheckIdle /\ MidIdle /\ RaceIdle

DesignIdle == GridIdle /\ SweepIdle /\ DerivIdle /\ PluginIdle

\* identities of the history objects
InitId == 0

RetId(r) == r

WorkId(r) == Cardinality(Runs) + r

FileId == 2 * Cardinality(Runs) + 1

ObjIds == 0 .. FileId

ResultIds == {InitId} \cup {RetId(r) : r \in Runs}

\* lines 73-74: the state a continued run starts from is the final recorded
\* opt_state and the final recorded params of the result
resume_state_reinit(h) ==
    [opt_state |-> optax_init(get_final(h.params)), params |-> get_final(h.params)]

resume_state(h) ==
    [opt_state |-> get_final(h.opt_state), params |-> get_final(h.params)]

\* history = deepcopy(result.history): the object the local history refers to
deepcopy_alias(r, s) == s

deepcopy(r, s) == WorkId(r)

\* InverseDesignResult(design=result.design, **history): a new object with
\* the content of the history
InverseDesignResult(h) == h

Active == {r \in Runs : pc[r] \in {"eval", "save", "update", "return"}}

OptInit ==
    /\ params0 \in Params0
    /\ heap = [i \in ObjIds |-> NoResult]
    /\ pc = [r \in Runs |-> "idle"]
    /\ src = [r \in Runs |-> InitId]
    /\ num_steps = [r \in Runs |-> 1]
    /\ history_save_fname \in {"None", "history.pkl"}
    /\ loop_index = [r \in Runs |-> 0]
    /\ params = [r \in Runs |-> 0]
    /\ opt_state = [r \in Runs |-> optax_init(0)]
    /\ grad = [r \in Runs |-> 0]
    /\ href = [r \in Runs |-> WorkId(r)]
    /\ shown = [r \in Runs |-> NoResult]
    /\ cause = [r \in Runs |-> "none"]
    /\ nEvals = [r \in Runs |-> 0]
    /\ nUpdates = [r \in Runs |-> 0]

\* AbstractOptimizer.initialize_result(params0), the first statement of run
Initialize ==
    /\ ~heap[InitId].exists
    /\ heap' = [heap EXCEPT ![InitId] = initialize_result(params0)]
    /\ UNCHANGED <<params0, pc, src, num_steps, history_save_fname, loop_index, params,
                   opt_state, grad, href, shown, cause, nEvals, nUpdates>>
    /\ UNCHANGED <<batchVars, designVars>>

\* continue_run(result), lines 73-82: read the final state, copy the history.
\* The result is the initialized one, one returned by an earlier call, or one
\* loaded from the checkpoint file.  The calls are numbered in the order in
\* which they are made.
Call(r, s, n) ==
    /\ pc[r] = "idle"
    /\ \A q \in Runs : q < r => pc[q] # "idle"
    /\ Cardinality(Active) < MaxActive
    /\ heap[s].exists
    /\ pc' = [pc EXCEPT ![r] = "eval"]
    /\ src' = [src EXCEPT ![r] = s]
    /\ num_steps' = [num_steps EXCEPT ![r] = n]
    /\ loop_index' = [loop_index EXCEPT ![r] = 0]
    /\ opt_state' = [opt_state EXCEPT ![r] = resume_state(heap[s]).opt_state]
    /\ params' = [params EXCEPT ![r] = resume_state(heap[s]).params]
    /\ href' = [href EXCEPT ![r] = deepcopy(r, s)]
    /\ heap' = [heap EXCEPT ![deepcopy(r, s)] =
                    [heap[s] EXCEPT !.ckpts = IF s = FileId THEN @ + 1 ELSE @]]
    /\ UNCHANGED <<params0, history_save_fname, grad, shown, cause, nEvals, nUpdates>>
    /\ UNCHANGED <<batchVars, designVars>>

\* the five appends of lines 95-99
save_history_no_penalty(h, e) ==
    [h EXCEPT !.objective_fn_val = Append(@, e.val),
              !.grad = Append(@, e.grad),
              !.post_process_val = Append(@, e.post_process_val),
              !.simulation = Append(@, e.simulation)]

save_history(h, e) ==
    [h EXCEPT !.objective_fn_val = Append(@, e.val),
              !.grad = Append(@, e.grad),
              !.penalty = Append(@, e.penalty),
              !.post_process_val = Append(@, e.post_process_val),
              !.simulation = Append(@, e.simulation)]

\* lines 87-103: evaluate value and gradient at params, record them, build
\* the result and hand it to display_fn
Evaluate(r) ==
    /\ pc[r] = "eval"
    /\ LET e == val_and_grad_fn(params[r])
           h == save_history(heap[href[r]], e)
       IN  /\ grad' = [grad EXCEPT ![r] = e.grad]
           /\ heap' = [heap EXCEPT ![href[r]] = h]
           /\ shown' = [shown EXCEPT ![r] = InverseDesignResult(h)]
    /\ nEvals' = [nEvals EXCEPT ![r] = @ + 1]
    /\ pc' = [pc EXCEPT ![r] = IF history_save_fname # "None" THEN "save" ELSE "update"]
    /\ UNCHANGED <<params0, src, num_steps, history_save_fname, loop_index, params,
                   opt_state, href, cause, nUpdates>>
    /\ UNCHANGED <<batchVars, designVars>>

\* line 87 raises (a forward or adjoint simulation fails): the exception
\* leaves continue_run, whose local variables are dropped
EvaluateFails(r) ==
    /\ pc[r] = "eval"
    /\ pc' = [pc EXCEPT ![r] = "raised"]
    /\ cause' = [cause EXCEPT ![r] = "eval"]
    /\ UNCHANGED <<params0, heap, src, num_steps, history_save_fname, loop_index, params,
                   opt_state, grad, href, shown, nEvals, nUpdates>>
    /\ UNCHANGED <<batchVars, designVars>>

\* lines 106-107: result.to_file(self.history_save_fname)
Save(r) ==
    /\ pc[r] = "save"
    /\ heap' = [heap EXCEPT ![FileId] = shown[r]]
    /\ pc' = [pc EXCEPT ![r] = "update"]
    /\ UNCHANGED <<params0, src, num_steps, history_save_fname, loop_index, params,
                   opt_state, grad, href, shown, cause, nEvals, nUpdates>>
    /\ UNCHANGED <<batchVars, designVars>>

\* line 107 raises (the file cannot be written); nothing in continue_run
\* catches it
SaveFails(r) ==
    /\ pc[r] = "save"
    /\ pc' = [pc EXCEPT ![r] = "raised"]
    /\ cause' = [cause EXCEPT ![r] = "save"]
    /\ UNCHANGED <<params0, heap, src, num_steps, history_save_fname, loop_index, params,
                   opt_state, grad, href, shown, nEvals, nUpdates>>
    /\ UNCHANGED <<batchVars, designVars>>

\* lines 110-113: transform the negated gradient, apply the update, append
\* the new parameters and the new state; then the next iteration of line 85
Update(r) ==
    /\ pc[r] = "update"
    /\ LET h   == heap[href[r]]
           out == optax_update(0 - grad[r], opt_state[r])
           p   == apply_updates(params[r], out.updates)
       IN  /\ params' = [params EXCEPT ![r] = p]
           /\ opt_state' = [opt_state EXCEPT ![r] = out.opt_state]
           /\ heap' = [heap EXCEPT ![href[r]] =
                          [h EXCEPT !.params = Append(@, p),
                                    !.opt_state = Append(@, out.opt_state)]]
    /\ nUpdates' = [nUpdates EXCEPT ![r] = @ + 1]
    /\ loop_index' = [loop_index EXCEPT ![r] = @ + 1]
    /\ pc' = [pc EXCEPT ![r] =
                 IF loop_index[r] + 1 < num_steps[r] THEN "eval" ELSE "return"]
    /\ UNCHANGED <<params0, src, num_steps, history_save_fname, grad, href, shown, cause,
                   nEvals>>
    /\ UNCHANGED <<batchVars, designVars>>

\* line 115: return InverseDesignResult(design=result.design, **history)
Return(r) ==
    /\ pc[r] = "return"
    /\ heap' = [heap EXCEPT ![RetId(r)] = InverseDesignResult(heap[href[r]])]
    /\ pc' = [pc EXCEPT ![r] = "done"]
    /\ UNCHANGED <<params0, src, num_steps, history_save_fname, loop_index, params,
                   opt_state, grad, href, shown, cause, nEvals, nUpdates>>
    /\ UNCHANGED <<batchVars, designVars>>

(***************************************************************************)
(* Sampling runs and their batch dispatch.                                 *)
(*                                                                         *)
(* A Python dict is a sequence of <<key, value>> pairs in insertion order. *)
(* A string key is the sequence of its segments between '_' separators:    *)
(* str(3) is <<"3">>, f"init_{3}" is <<"init", "3">>.                      *)
(***************************************************************************)
\* largest number of argument mappings in one batch
MaxBatch == 3

\* the argument mappings a sampler can produce (one design parameter)
Args == {1, 2, 3}

\* MethodSample._eval_run in local mode and on tidy3d, the initial block of
\* MethodBayOpt.run on tidy3d, DesignSpace._stitch_pre_post
Modes == {"sample_local", "sample_tidy3d", "bayopt_tidy3d", "stitch"}

DictHas(d, k) == \E i \in DOMAIN d : d[i][1] = k

DictGet(d, k) == d[CHOOSE i \in DOMAIN d : d[i][1] = k][2]

DictPut(d, k, v) ==
    IF DictHas(d, k)
    THEN [i \in DOMAIN d |-> IF d[i][1] = k THEN <<k, v>> ELSE d[i]]
    ELSE Append(d, <<k, v>>)

DictKeys(d) == [i \in DOMAIN d |-> d[i][1]]

DictValues(d) == [i \in DOMAIN d |-> d[i][2]]

SeqRange(q) == {q[i] : i \in DOMAIN q}

\* str(i)
Str(i) == <<ToString(i)>>

\* the user's functions: pre_fn builds the simulation of an argument mapping,
\* post_fn post-processes whatever it is given
pre_fn(a) == [type |-> "Simulation", arg |-> a]

post_fn(d) == <<"post", d>>

\* the solver: the data of a simulation
SimulationData(sim) == [type |-> "SimulationData", arg |-> sim.arg]

\* DesignSpace.task_name
task_name == "task"

\* {str(i): pre_fn(**arg_dict) for i, arg_dict in enumerate(fn_args)}
enumerate_sims(args) == [i \in DOMAIN args |-> <<Str(i - 1), pre_fn(args[i])>>]

\* sim_dict[f"init_{sim_idx}"] = pre_fn(**next_point)
init_sims(args) ==
    [i \in DOMAIN args |-> <<<<"init", ToString(i - 1)>>, pre_fn(args[i])>>]

\* _find_and_map(search_dict, search_type, output_dict, previous_key): the
\* values of search_type in the dict and in the dicts nested in it, stored in
\* output_dict under their key paths joined with "_". A key is the sequence
\* of its "_"-separated segments, so joining is concatenation and the join of
\* "a" and "b_c" is the join of "a_b" and "c". Only dict values are searched.
RECURSIVE find_and_map(_, _, _, _)
find_and_map(search_dict, search_type, output_dict, previous_key) ==
    IF search_dict = <<>> THEN output_dict
    ELSE LET key        == Head(search_dict)[1]
             value      == Head(search_dict)[2]
             latest_key == previous_key \o key
             nested     == IF value.type = "dict"
                           THEN find_and_map(value.arg, search_type, output_dict,
                                             latest_key)
                           ELSE output_dict
             here       == IF value.type = search_type
                           THEN DictPut(nested, latest_key, value) ELSE nested
         IN  find_and_map(Tail(search_dict), search_type, here, previous_key)

\* sim_name = f"{self.task_name}_{sim_counter}"
sim_name(counter) == <<task_name, ToString(counter)>>

\* sim_counter += 1
next_sim_counter_stuck(counter) == counter

next_sim_counter(counter) == counter + 1

\* the loop of lines 251-255 of design.py: named_sims and translate_sims
RECURSIVE name_sims(_, _, _)
name_sims(simulations, counter, acc) ==
    IF simulations = <<>> THEN acc
    ELSE name_sims(Tail(simulations), next_sim_counter(counter),
                   [named_sims |->
                        DictPut(acc.named_sims, sim_name(counter),
                                Head(simulations)[2]),
                    translate_sims |->
                        DictPut(acc.translate_sims, sim_name(counter),
                                Head(simulations)[1])])

NamedSims(args, counter) ==
    name_sims(find_and_map(enumerate_sims(args), "Simulation", <<>>, <<>>), counter,
              [named_sims |-> <<>>, translate_sims |-> <<>>])

\* a dict value: its items as <<key, value>> pairs
Dict(items) == [type |-> "dict", arg |-> items]

\* a list value
List(elems) == [type |-> "list", arg |-> elems]

\* what _return_to_dict(return_dict, key, return_obj) raises: split_key[0] is
\* the text before the first "_" of the key, whatever key of the input it
\* came from; return_dict[split_key[0]] raises KeyError when the dict has no
\* such key, and subscripting what is not a dict raises TypeError
RECURSIVE return_to_dict_raises(_, _)
return_to_dict_raises(return_dict, key) ==
    IF Len(key) > 1
    THEN IF ~DictHas(return_dict, <<Head(key)>>) THEN "KeyError"
         ELSE LET sub == DictGet(return_dict, <<Head(key)>>)
              IN  IF sub.type # "dict" THEN "TypeError"
                  ELSE return_to_dict_raises(sub.arg, Tail(key))
    ELSE "None"

\* _return_to_dict(return_dict, key, return_obj), key.split("_", 1)
RECURSIVE return_to_dict(_, _, _)
return_to_dict(return_dict, key, return_obj) ==
    IF Len(key) > 1
    THEN DictPut(return_dict, <<Head(key)>>,
                 Dict(return_to_dict(DictGet(return_dict, <<Head(key)>>).arg,
                                     Tail(key), return_obj)))
    ELSE DictPut(return_dict, <<key[1]>>, return_obj)

\* the loops of lines 276-281 of design.py over sims_out.items() and
\* batch_results.items(): objs are the <<key path, object>> pairs in order
RECURSIVE return_sims(_, _)
return_sims(d, objs) ==
    IF objs = <<>> THEN Returns(d)
    ELSE LET key == Head(objs)[1]
         IN  IF return_to_dict_raises(d, key) # "None"
             THEN Raise(return_to_dict_raises(d, key))
             ELSE return_sims(return_to_dict(d, key, Head(objs)[2]), Tail(objs))

\* pre_out = {str(idx): {str(sub_idx): sub_list ...} ...}, lines 218-222
list_to_dict(out_of_pre) ==
    [i \in DOMAIN out_of_pre |->
        <<Str(i - 1),
          Dict([j \in DOMAIN out_of_pre[i][2].arg |->
                    <<Str(j - 1), out_of_pre[i][2].arg[j]>>])>>]

\* {dict_idx: list(sub_dict.values()) for dict_idx, sub_dict in pre_out.items()}
dict_to_list(d) == [i \in DOMAIN d |-> <<d[i][1], List(DictValues(d[i][2].arg))>>]

\* all(isinstance(sim, list) for sim in pre_out.values())
all_lists(out_of_pre) == \A i \in DOMAIN out_of_pre : out_of_pre[i][2].type = "list"

\* named_sims and translate_sims of the simulations found in pre_out
name_found(out_of_pre, counter) ==
    name_sims(find_and_map(IF all_lists(out_of_pre) THEN list_to_dict(out_of_pre)
                           ELSE out_of_pre, "Simulation", <<>>, <<>>),
              counter, [named_sims |-> <<>>, translate_sims |-> <<>>])

\* batch.run(path_dir) of a Batch the user built
batch_run(batch) == [type |-> "BatchData", arg |-> batch.arg]

\* DesignSpace._fn_mid(pre_out, sim_counter), sims_out being what the Batch
\* of the named simulations returns
fn_mid(out_of_pre, counter, sims_out) ==
    LET was_list    == all_lists(out_of_pre)
        as_dict     == IF was_list THEN list_to_dict(out_of_pre) ELSE out_of_pre
        simulations == find_and_map(as_dict, "Simulation", <<>>, <<>>)
        batches     == find_and_map(as_dict, "Batch", <<>>, <<>>)
        translate   == name_found(out_of_pre, counter).translate_sims
        sims_back   == [i \in DOMAIN sims_out |->
                            <<DictGet(translate, sims_out[i][1]), sims_out[i][2]>>]
        batch_back  == [i \in DOMAIN batches |->
                            <<batches[i][1], batch_run(batches[i][2])>>]
        filled      == return_sims(as_dict, sims_back \o batch_back)
    IN  IF simulations = <<>> /\ batches = <<>> THEN Returns(out_of_pre)
        ELSE IF filled.kind = "returned" /\ was_list
             THEN Returns(dict_to_list(filled.value))
             ELSE filled

\* the simulations a code path hands to the dispatcher: a single Simulation
\* goes to web.run, a dict of them to web.Batch
Submitted(mode, args, counter) ==
    CASE mode = "sample_tidy3d" ->
             IF Len(args) = 1 THEN <<<<<<"run">>, pre_fn(args[1])>>>>
             ELSE enumerate_sims(args)
      [] mode = "bayopt_tidy3d" -> init_sims(args)
      [] mode = "stitch" -> NamedSims(args, counter).named_sims
      [] OTHER -> <<>>

\* Batch.run() / web.run(): blocks until every job of the batch is complete
Batch_run_returns == SeqRange(DictKeys(jobs)) \subseteq SeqRange(completed)

\* the data of the jobs that are complete, by job name, in the order of the
\* submitted dict
RECURSIVE BatchData(_)
BatchData(js) ==
    IF js = <<>> THEN <<>>
    ELSE (IF Head(js)[1] \in SeqRange(completed)
          THEN <<<<Head(js)[1], SimulationData(Head(js)[2])>>>> ELSE <<>>)
         \o BatchData(Tail(js))

\* Method._tidy3d_run returns what web.run or batch.run returns
tidy3d_run_no_wait == completed # <<>>

tidy3d_run_returns == Batch_run_returns

\* the results that are post-processed, in order
Results ==
    IF b_mode = "stitch"
    THEN DictValues(fn_mid(enumerate_sims(fn_args), sim_counter, pre_out).value)
    ELSE DictValues(pre_out)

BatchIdle ==
    /\ bpc = "idle" /\ b_mode = "none" /\ fn_args = <<>> /\ sim_counter = 0
    /\ jobs = <<>> /\ completed = <<>> /\ pre_out = <<>> /\ processed = <<>>

ArgLists == UNION {[1 .. n -> Args] : n \in 1 .. MaxBatch}

\* a sampling run starts: the argument mappings are assembled and, on
\* tidy3d, the simulations are built and handed to the dispatcher
Submit(mode, args, counter) ==
    /\ bpc = "idle"
    /\ b_mode' = mode
    /\ fn_args' = args
    /\ sim_counter' = counter
    /\ jobs' = Submitted(mode, args, counter)
    /\ bpc' = IF mode = "sample_local" THEN "local" ELSE "dispatched"
    /\ UNCHANGED <<completed, pre_out, processed>>
    /\ UNCHANGED <<optVars, designVars>>

\* method.py lines 168-170: fn_output = pre_fn(**arg_dict); results.append
LocalEval ==
    /\ bpc = "local"
    /\ LET i == Len(pre_out) + 1
       IN  pre_out' = Append(pre_out, <<Str(i - 1), pre_fn(fn_args[i])>>)
    /\ bpc' = IF Len(pre_out) + 1 = Len(fn_args) THEN "post" ELSE "local"
    /\ UNCHANGED <<b_mode, fn_args, sim_counter, jobs, completed, processed>>
    /\ UNCHANGED <<optVars, designVars>>

\* the dispatcher completes one of the jobs, in any order
JobComplete(i) ==
    /\ bpc = "dispatched"
    /\ i \in DOMAIN jobs
    /\ jobs[i][1] \notin SeqRange(completed)
    /\ completed' = Append(completed, jobs[i][1])
    /\ UNCHANGED <<bpc, b_mode, fn_args, sim_counter, jobs, pre_out, processed>>
    /\ UNCHANGED <<optVars, designVars>>

\* a job fails: batch.run() raises, the sampling run raises
JobFails(i) ==
    /\ bpc = "dispatched"
    /\ i \in DOMAIN jobs
    /\ jobs[i][1] \notin SeqRange(completed)
    /\ bpc' = "raised"
    /\ UNCHANGED <<b_mode, fn_args, sim_counter, jobs, completed, pre_out, processed>>
    /\ UNCHANGED <<optVars, designVars>>

\* pre_out = self._tidy3d_run(sims, run_kwargs)
Tidy3dRunReturn ==
    /\ bpc = "dispatched"
    /\ tidy3d_run_returns
    /\ pre_out' = BatchData(jobs)
    /\ bpc' = "post"
    /\ UNCHANGED <<b_mode, fn_args, sim_counter, jobs, completed, processed>>
    /\ UNCHANGED <<optVars, designVars>>

\* one call of post_fn on the next result (method.py 185-186 and 322-324,
\* design.py 201); the sampling run returns after the last one
Post ==
    /\ bpc = "post"
    /\ Len(processed) < Len(Results)
    /\ LET i == Len(processed) + 1
       IN  processed' = Append(processed,
               [arg |-> IF i \in DOMAIN fn_args THEN fn_args[i] ELSE 0,
                out |-> post_fn(Results[i])])
    /\ bpc' = IF Len(processed) + 1 = Len(Results) THEN "done" ELSE "post"
    /\ UNCHANGED <<b_mode, fn_args, sim_counter, jobs, completed, pre_out>>
    /\ UNCHANGED <<optVars, designVars>>

BatchNext ==
    \/ \E mode \in Modes, args \in ArgLists, counter \in {0, 1} :
          Submit(mode, args, counter)
    \/ LocalEval
    \/ \E i \in 1 .. MaxBatch : JobComplete(i)
    \/ \E i \in 1 .. MaxBatch : JobFails(i)
    \/ Tidy3dRunReturn
    \/ Post

\* the optimizer is not run in this specification
BatchInit ==
    /\ OptInit /\ params0 = 0 /\ history_save_fname = "None"
    /\ BatchIdle
    /\ DesignIdle

SpecBatch == BatchInit /\ [][BatchNext]_vars

Init == OptInit /\ BatchIdle /\ DesignIdle

Next ==
    \/ Initialize
    \/ \E r \in Runs, s \in ResultIds \cup {FileId}, n \in 1 .. MaxSteps :
          Call(r, s, n)
    \/ \E r \in Runs : Evaluate(r)
    \/ \E r \in Runs : EvaluateFails(r)
    \/ \E r \in Runs : Save(r)
    \/ \E r \in Runs : SaveFails(r)
    \/ \E r \in Runs : Update(r)
    \/ \E r \in Runs : Return(r)

Spec == Init /\ [][Next]_vars

(***************************************************************************)
(* Properties of the optimizer loop.                                       *)
(***************************************************************************)
Done(r) == pc[r] = "done"

\* the histories an observer gets to see: handed to display_fn, written to
\* the checkpoint file, returned by run / continue_run
Displayed == {shown[r] : r \in {q \in Runs : shown[q].exists}}

Checkpointed == IF heap[FileId].exists THEN {heap[FileId]} ELSE {}

Returned == {heap[RetId(r)] : r \in {q \in Runs : Done(q)}}

EvalSeqsSameLen(h) ==
    /\ Len(h.grad) = Len(h.objective_fn_val)
    /\ Len(h.penalty) = Len(h.objective_fn_val)
    /\ Len(h.post_process_val) = Len(h.objective_fn_val)
    /\ Len(h.simulation) = Len(h.objective_fn_val)

AllSeqsSameLen(h) ==
    /\ EvalSeqsSameLen(h)
    /\ Len(h.params) = Len(h.objective_fn_val)
    /\ Len(h.opt_state) = Len(h.objective_fn_val)

\* the content of a history, without the model's history variable
Content(h) == [h EXCEPT !.ckpts = 0]

\* C1 as stated: at every observation point (display callback, checkpoint
\* file, returned result) all seven sequences of the history have the same
\* length.
C1_AllEqualEverywhere ==
    \A h \in Displayed \cup Checkpointed \cup Returned : AllSeqsSameLen(h)

\* C1 amended: at every observation point params and opt_state have one
\* length and the five evaluation sequences have one length; for a run started
\* by run(params0) or continued from returned results, all seven are equal in
\* the history handed to display_fn and in the checkpoint file, and the
\* returned history holds exactly one more params / opt_state entry.
C1_LengthsAtObservation ==
    /\ \A h \in Displayed \cup Checkpointed \cup Returned :
          /\ EvalSeqsSameLen(h)
          /\ Len(h.params) = Len(h.opt_state)
    /\ \A h \in Displayed \cup Checkpointed : h.ckpts = 0 => AllSeqsSameLen(h)
    /\ \A h \in Returned :
          h.ckpts = 0 => Len(h.params) = Len(h.objective_fn_val) + 1

C1_Witness ==
    /\ heap[FileId].exists /\ heap[FileId].ckpts = 0
    /\ \E r \in Runs : Done(r) /\ heap[RetId(r)].ckpts = 0 /\ num_steps[r] > 1

\* C2: with a deterministic objective, N steps from params0 give the same
\* final parameters and the same history as M steps followed by continue_run
\* on the returned result for N - M steps: any two returned results that
\* descend from run(params0) through returned results and hold the same
\* number of steps are equal.
C2_ResumeEqualsDirect ==
    \A a, b \in Runs :
        ( /\ Done(a) /\ Done(b)
          /\ heap[RetId(a)].ckpts = 0 /\ heap[RetId(b)].ckpts = 0
          /\ Len(heap[RetId(a)].params) = Len(heap[RetId(b)].params) )
        => heap[RetId(a)] = heap[RetId(b)]

\* a direct run of N steps and a run of M steps continued for N - M steps
C2_Witness ==
    \E a, b, c \in Runs :
        /\ Done(a) /\ Done(b) /\ Done(c)
        /\ src[a] = InitId /\ src[c] = InitId /\ src[b] = RetId(c)
        /\ num_steps[a] = num_steps[c] + num_steps[b]

\* C3 as stated: a run seeded from the checkpoint file of an uninterrupted
\* run reproduces the history of the uninterrupted run (no step recorded
\* twice): when it holds as many parameter entries, it is the same history.
C3_CheckpointResumes ==
    \A a, b \in Runs :
        ( /\ Done(a) /\ Done(b)
          /\ heap[RetId(a)].ckpts = 0
          /\ src[b] = FileId /\ heap[RetId(b)].ckpts = 1
          /\ Len(heap[RetId(a)].params) = Len(heap[RetId(b)].params) )
        => Content(heap[RetId(a)]) = Content(heap[RetId(b)])

\* C4 as stated: a failure of result.to_file is logged only, it never ends
\* the run: no call of continue_run raises because of it.
C4_SaveFailureNotFatal ==
    \A r \in Runs : pc[r] = "raised" => cause[r] # "save"

\* the histories a caller still holds after a call raised
Available ==
    {heap[i] : i \in {j \in ResultIds \cup {FileId} : heap[j].exists}}

\* C5 as stated: when the evaluation of step k fails, the history of the
\* steps 0..k-1 completed by that run is still available to resume from.
C5_ProgressKeptOnFailure ==
    \A r \in Runs :
        (pc[r] = "raised" /\ cause[r] = "eval" /\ loop_index[r] >= 1)
        => \E h \in Available :
              h.objective_fn_val = heap[WorkId(r)].objective_fn_val

\* C6 as stated: initialize_result evaluates objective and gradient at the
\* initial parameters and records them in the step-0 entry.
C6_InitEvaluates ==
    heap[InitId].exists =>
        /\ heap[InitId].objective_fn_val = <<objective_val(params0)>>
        /\ heap[InitId].grad = <<objective_grad(params0)>>

\* C6 amended: initialize_result records the initial parameters and the
\* freshly initialized transform state as entry 0 of params and opt_state
\* before any Running transition, and evaluates nothing; the objective and
\* gradient at the initial parameters are evaluated and recorded by the first
\* Running transition of continue_run.
C6_InitRecordsParamsOnly ==
    /\ ~heap[InitId].exists => \A r \in Runs : pc[r] = "idle"
    /\ heap[InitId].exists =>
          heap[InitId] = [NoResult EXCEPT !.exists = TRUE,
                                          !.params = <<params0>>,
                                          !.opt_state = <<optax_init(params0)>>]
    /\ \A r \in Runs :
          (src[r] = InitId /\ nEvals[r] >= 1) =>
              /\ heap[WorkId(r)].objective_fn_val[1] = objective_val(params0)
              /\ heap[WorkId(r)].grad[1] = objective_grad(params0)

C6_Witness ==
    \E r \in Runs : src[r] = InitId /\ nEvals[r] = 1 /\ pc[r] = "update"

\* C7 as stated: provided every evaluation returns, the loop performs
\* exactly num_steps evaluations and num_steps updates and then returns.
C7_ExactlyNumSteps ==
    \A r \in Runs :
        (pc[r] \in {"done", "raised"} /\ cause[r] # "eval")
        => /\ pc[r] = "done"
           /\ nEvals[r] = num_steps[r]
           /\ nUpdates[r] = num_steps[r]

\* runs started from the same result with the same num_steps return the
\* same history
C8_SameAsAlone ==
    \A a, b \in Runs :
        ( /\ Done(a) /\ Done(b)
          /\ src[a] = src[b] /\ src[a] # FileId
          /\ num_steps[a] = num_steps[b] )
        => heap[RetId(a)] = heap[RetId(b)]

\* a step of one run changes neither the history another run works on nor
\* any result object
C8_Step ==
    /\ \A r \in Runs :
          (pc[r] \in {"eval", "save", "update", "return"} /\ pc'[r] = pc[r])
          => heap'[href[r]] = heap[href[r]]
    /\ \A i \in ResultIds : heap[i].exists => heap'[i] = heap[i]

\* C8: concurrent runs own independent histories.  A step of one run
\* changes neither the history another run is working on nor any result
\* object (the shared starting result included), and runs started from the
\* same result with the same num_steps return the same history, however
\* their steps interleave.
C8_IndependentHistories == [](C8_SameAsAlone) /\ [][C8_Step]_vars

\* two runs started from the same result, both in the middle of their loops
C8_Witness ==
    \E a, b \in Runs :
        /\ a # b /\ src[a] = src[b] /\ src[a] # FileId
        /\ pc[a] = "update" /\ pc[b] = "update"
        /\ loop_index[a] >= 1


(***************************************************************************)
(* Properties of the batch dispatch.                                       *)
(***************************************************************************)
\* what the caller expects for an argument mapping
Expected(mode, a) ==
    IF mode = "sample_local" THEN post_fn(pre_fn(a))
    ELSE post_fn(SimulationData(pre_fn(a)))

C10_BarrierBeforeConsumption ==
    /\ processed # <<>> => Batch_run_returns
    /\ bpc = "raised" => processed = <<>>

C10_Witness ==
    /\ bpc = "post" /\ b_mode = "bayopt_tidy3d"
    /\ Len(jobs) = 3 /\ Len(processed) = 1
    /\ completed # DictKeys(jobs)


(***************************************************************************)
(* MethodGrid.sample (plugins/design/method.py).                           *)
(***************************************************************************)
\* the largest number of design parameters of a sweep
MaxParams == 3

\* design_var.name of the d-th parameter
param_name(d) == "p" \o ToString(d)

\* what design_var.sample_grid() may return: the discretized domain of one
\* parameter, distinct values in increasing order
GridDomains == {<<0>>, <<0, 1>>, <<0, 1, 2>>, <<3, 7>>}

\* np.prod(shape)
RECURSIVE prod(_)
prod(shape) == IF shape = <<>> THEN 1 ELSE Head(shape) * prod(Tail(shape))

\* the shape of every array np.meshgrid(*xs) returns under its default
\* indexing="xy": the first two axes are swapped
meshgrid_shape(xs) ==
    LET ks == [d \in DOMAIN xs |-> Len(xs[d])]
    IN  IF Len(ks) < 2 THEN ks ELSE <<ks[2], ks[1]>> \o SubSeq(ks, 3, Len(ks))

\* the axis of those arrays along which the d-th input varies
meshgrid_axis(d, n) ==
    IF n < 2 THEN d ELSE IF d = 1 THEN 2 ELSE IF d = 2 THEN 1 ELSE d

\* every position of the flat list indexes axis a at f modulo its length: the
\* strides of the later axes are forgotten
unravel_index_no_stride(f, shape, a) == f % shape[a]

\* the index along axis a of the element that np.ravel (C order: the last
\* axis varies fastest) puts at position f, counted from 0
unravel_index(f, shape, a) ==
    (f \div prod(SubSeq(shape, a + 1, Len(shape)))) % shape[a]

\* np.ravel(np.meshgrid(*xs)[d]).tolist()
ravel_meshgrid(xs, d) ==
    LET shape == meshgrid_shape(xs)
    IN  [f \in 1 .. prod(shape) |->
            xs[d][unravel_index(f - 1, shape, meshgrid_axis(d, Len(xs))) + 1]]

\* MethodGrid.sample, from the dictionary vals_each_dim on
MethodGrid_sample(ved) ==
    LET xs == DictValues(ved)
        vals_dict == [d \in DOMAIN ved |-> <<DictKeys(ved)[d], ravel_meshgrid(xs, d)>>]
    IN  [f \in 1 .. prod(meshgrid_shape(xs)) |->
            [d \in DOMAIN vals_dict |-> <<vals_dict[d][1], vals_dict[d][2][f]>>]]

\* the dictionaries vals_each_dim of the sweeps of n parameters
GridInputs(n) ==
    {[d \in 1 .. n |-> <<param_name(d), doms[d]>>] : doms \in [1 .. n -> GridDomains]}

\* the optimizer and the batch dispatch are not run in the specifications below
OthersIdle ==
    /\ OptInit /\ params0 = 0 /\ history_save_fname = "None"
    /\ BatchIdle

GridInit ==
    /\ OthersIdle /\ SweepIdle /\ DerivIdle /\ PluginIdle
    /\ g_pc = "called"
    /\ \E n \in 1 .. MaxParams : vals_each_dim \in GridInputs(n)
    /\ grid_args = <<>>

Sample ==
    /\ g_pc = "called"
    /\ g_pc' = "returned"
    /\ grid_args' = MethodGrid_sample(vals_each_dim)
    /\ UNCHANGED <<vals_each_dim, optVars, batchVars, sweepVars, derivVars, pluginVars>>

GridNext == Sample

SpecGrid == GridInit /\ [][GridNext]_vars

\* the size of the largest discretized domain
MaxDomainLen ==
    CHOOSE m \in {Len(q) : q \in GridDomains} : \A q \in GridDomains : Len(q) <= m

\* the combinations of one value per parameter, as argument mappings
Combinations(ved) ==
    {[d \in DOMAIN ved |-> <<ved[d][1], ved[d][2][ix[d]]>>] :
        ix \in {jx \in [DOMAIN ved -> 1 .. MaxDomainLen] :
                    \A d \in DOMAIN ved : jx[d] <= Len(ved[d][2])}}

\* C11: MethodGrid.sample returns exactly k1*...*kn argument mappings for
\* domains of sizes k1..kn, and every combination of one value per parameter
\* appears exactly once.
C11_GridIsProduct ==
    g_pc = "returned" =>
        /\ Len(grid_args) = prod([d \in DOMAIN vals_each_dim |-> Len(vals_each_dim[d][2])])
        /\ \A c \in Combinations(vals_each_dim) :
              Cardinality({f \in DOMAIN grid_args : grid_args[f] = c}) = 1

\* three parameters with domains of sizes 2, 3 and 2: twelve mappings
C11_Witness ==
    /\ g_pc = "returned"
    /\ DictValues(vals_each_dim) = <<<<0, 1>>, <<0, 1, 2>>, <<3, 7>>>>
    /\ Len(grid_args) = 12

\* the position of the combination with indexes ix (from 0) in the row-major
\* enumeration of domains of sizes ks: the last parameter varies fastest
RECURSIVE row_major_position(_, _)
row_major_position(ix, ks) ==
    IF ks = <<>> THEN 0
    ELSE ix[Len(ks)] + ks[Len(ks)] * row_major_position(SubSeq(ix, 1, Len(ks) - 1),
                                                         SubSeq(ks, 1, Len(ks) - 1))

\* C12: MethodGrid.sample enumerates the Cartesian product in row-major order
\* with respect to the order of the parameters (the last parameter varies
\* fastest, the first slowest), for any number of parameters.
C12_RowMajorOrder ==
    g_pc = "returned" =>
        LET xs == DictValues(vals_each_dim)
            ks == [d \in DOMAIN xs |-> Len(xs[d])]
        IN  \A ix \in [DOMAIN xs -> 0 .. MaxDomainLen - 1] :
                (\A d \in DOMAIN xs : ix[d] < ks[d]) =>
                    grid_args[row_major_position(ix, ks) + 1] =
                        [d \in DOMAIN xs |-> <<param_name(d), xs[d][ix[d] + 1]>>]


(***************************************************************************)
(* Method.run: the sweeps of the sampling methods                          *)
(* (plugins/design/method.py).  Numbers are kept in tenths together with   *)
(* their Python type, so that int(round(v, 0)) is a conversion.            *)
(***************************************************************************)
\* the fixed-point unit: a number is stored as its count of tenths
Tenth == 10

\* the float t/10
Float(t) == [type |-> "float", tenths |-> t]

\* the Python int n
PyInt(n) == [type |-> "int", tenths |-> n * Tenth]

\* the float is handed on as it is, without rounding
round_skipped(x) == x

\* round(x, 0): the nearest whole number, a tie going to the even one; the
\* result is still a float
round(x) ==
    LET q == x.tenths \div Tenth
        r == x.tenths % Tenth
    IN  Float(Tenth * (IF 2 * r < Tenth THEN q
                       ELSE IF 2 * r > Tenth THEN q + 1
                       ELSE IF q % 2 = 0 THEN q ELSE q + 1))

\* int(x): truncation towards zero
int(x) ==
    [type |-> "int",
     tenths |-> IF x.tenths >= 0 THEN Tenth * (x.tenths \div Tenth)
                ELSE 0 - Tenth * ((0 - x.tenths) \div Tenth)]

\* tdd.ParameterInt(name, span=(lo, hi)) and tdd.ParameterFloat(name, span=(lo/10, hi/10))
ParameterInt(name, lo, hi) ==
    [name |-> name, type |-> "ParameterInt", span |-> <<PyInt(lo), PyInt(hi)>>]

ParameterFloat(name, lo, hi) ==
    [name |-> name, type |-> "ParameterFloat", span |-> <<Float(lo), Float(hi)>>]

\* the body of the loop of _force_int for one integer parameter
force_int_value(x, param) ==
    LET new_int == int(round(x))
    IN  IF new_int.tenths < param.span[1].tenths THEN param.span[1]
        ELSE IF new_int.tenths > param.span[2].tenths THEN param.span[2]
        ELSE new_int

\* Method._force_int: the dictionary next_point (here point) after the
\* in-place update
RECURSIVE force_int(_, _)
force_int(point, prms) ==
    IF prms = <<>> THEN point
    ELSE LET param == Head(prms)
         IN  force_int(IF param.type = "ParameterInt"
                       THEN DictPut(point, param.name,
                                    force_int_value(DictGet(point, param.name), param))
                       ELSE point,
                       Tail(prms))

\* the largest number of points of a sweep
MaxPoints == 2

\* the parameter tuples of the sweeps
ParamTuples ==
    {<<ParameterInt("n", 0, 5)>>,
     <<ParameterFloat("x", 0, 10), ParameterInt("n", 0, 5)>>}

\* values a point may hold for a parameter before _force_int
RawValues(param) ==
    IF param.type = "ParameterInt"
    THEN {Float(0 - 10), Float(25), Float(26), Float(35), Float(70)}
    ELSE {Float(3)}

\* the points over the parameters, as dictionaries name -> value
RawPoints(prms) ==
    {[d \in DOMAIN prms |-> <<prms[d].name, v[d]>>] :
        v \in {w \in [DOMAIN prms -> UNION {RawValues(prms[d]) : d \in DOMAIN prms}] :
                  \A d \in DOMAIN prms : w[d] \in RawValues(prms[d])}}

\* what self.sample(parameters) may return
RawArgLists(prms) == UNION {[1 .. k -> RawPoints(prms)] : k \in 1 .. MaxPoints}

\* the classes of MethodType
SampleMethods == {"MethodGrid", "MethodMonteCarlo", "MethodRandom", "MethodRandomCustom"}

\* the user's pre_fn: it calls web.run itself, it returns a Simulation, or it
\* returns something that is no simulation, dictionary or list
PreKinds == {"calls_web", "simulation", "other"}

\* lower_params of _check_pre_output
lower_params(prms) == [d \in DOMAIN prms |-> <<prms[d].name, prms[d].span[1]>>]

\* the points evaluated so far are handed back instead of the exception
run_recovers(exc, args, partial) == Returns(<<args, partial>>)

\* an exception of the user's function inside run: no handler in
\* _assemble_args, _eval_run or run, so the locals are dropped
run_raises(exc, args, partial) == Raise(exc)


\* a sampler whose random(n) returns an ndarray of shape (n, d), values in [0, 1]
GoodSampler(d) ==
    [is_none |-> FALSE, has_random |-> TRUE, is_ndarray |-> TRUE, ndim |-> 2, rows_n |-> TRUE,
     d |-> d, in_01 |-> TRUE]

\* the values of the field sampler: missing, well-behaved, or with one defect
Samplers ==
    {NoSampler} \cup {GoodSampler(d) : d \in 1 .. 2}
    \cup {[GoodSampler(1) EXCEPT !.has_random = FALSE],
          [GoodSampler(1) EXCEPT !.is_ndarray = FALSE],
          [GoodSampler(1) EXCEPT !.ndim = 1],
          [GoodSampler(1) EXCEPT !.rows_n = FALSE],
          [GoodSampler(2) EXCEPT !.in_01 = FALSE]}

\* MethodRandomCustom._check_sampler: TRUE when no ValueError is raised
check_sampler(val) ==
    /\ val.has_random
    /\ val.is_ndarray
    /\ val.ndim = 2
    /\ val.rows_n
    /\ val.in_01

\* pd.validator("sampler") without always=True: the validator does not run
\* for the default value None
validator_runs(val) == ~val.is_none

\* MethodRandomCustom.get_sampler: "ok" or the exception raised
get_sampler(val, prms) ==
    IF val.is_none THEN "AttributeError"
    ELSE IF val.d # Len(prms) THEN "ValueError"
    ELSE "ok"

\* the constructor of the method object: pydantic validation of its fields
Construct ==
    /\ s_pc = "new"
    /\ IF method = "MethodRandomCustom" /\ validator_runs(sampler) /\ ~check_sampler(sampler)
       THEN s_pc' = "raised" /\ outcome' = Raise("ValueError")
       ELSE s_pc' = "constructed" /\ outcome' = outcome
    /\ UNCHANGED <<method, parameters, pre_kind, sampler, initial_iter, n_iter, run_loc,
                   raw_args, arg_list, calls, results, processed_result, registered>>
    /\ UNCHANGED <<next_point, population, store_parameters, store_fitness,
                   generations_completed>>
    /\ UNCHANGED <<optVars, batchVars, gridVars, derivVars, pluginVars>>

\* MethodSample._assemble_args up to the call of _check_pre_output, for the
\* points raw returned by self.sample
Assemble(raw) ==
    /\ s_pc = "constructed" /\ method \in SampleMethods
    /\ raw \in RawArgLists(parameters)
    /\ method = "MethodRandomCustom" => get_sampler(sampler, parameters) = "ok"
    /\ raw_args' = raw
    /\ arg_list' = [i \in DOMAIN raw |-> force_int(raw[i], parameters)]
    /\ s_pc' = "check"
    /\ UNCHANGED <<method, parameters, pre_kind, sampler, initial_iter, n_iter, run_loc,
                   calls, results, processed_result, registered, outcome>>
    /\ UNCHANGED <<next_point, population, store_parameters, store_fitness,
                   generations_completed>>
    /\ UNCHANGED <<optVars, batchVars, gridVars, derivVars, pluginVars>>

\* AbstractMethodRandom.sample: get_sampler raises
GetSamplerFails ==
    /\ s_pc = "constructed" /\ method = "MethodRandomCustom"
    /\ get_sampler(sampler, parameters) # "ok"
    /\ s_pc' = "raised"
    /\ outcome' = Raise(get_sampler(sampler, parameters))
    /\ UNCHANGED <<method, parameters, pre_kind, sampler, initial_iter, n_iter, run_loc,
                   raw_args, arg_list, calls, results, processed_result, registered>>
    /\ UNCHANGED <<next_point, population, store_parameters, store_fitness,
                   generations_completed>>
    /\ UNCHANGED <<optVars, batchVars, gridVars, derivVars, pluginVars>>

\* Method._check_pre_output: pre_fn is called with the lower bounds unless its
\* source calls web.run or web.Batch itself
CheckPreOutput ==
    /\ s_pc = "check" \/ (s_pc = "constructed" /\ method = "MethodBayOpt")
    /\ IF pre_kind = "calls_web"
       THEN run_loc' = "local" /\ calls' = calls
       ELSE /\ calls' = Append(calls, lower_params(parameters))
            /\ run_loc' = IF pre_kind = "simulation" THEN "tidy3d" ELSE "local"
    /\ s_pc' = IF method \in SampleMethods THEN "pre" ELSE "suggest"
    /\ UNCHANGED <<method, parameters, pre_kind, sampler, initial_iter, n_iter, raw_args,
                   arg_list, results, processed_result, registered, outcome>>
    /\ UNCHANGED <<next_point, population, store_parameters, store_fitness,
                   generations_completed>>
    /\ UNCHANGED <<optVars, batchVars, gridVars, derivVars, pluginVars>>

CheckPreOutputFails ==
    /\ s_pc = "check" \/ (s_pc = "constructed" /\ method = "MethodBayOpt")
    /\ pre_kind # "calls_web"
    /\ calls' = Append(calls, lower_params(parameters))
    /\ s_pc' = "raised"
    /\ outcome' = run_raises("pre_fn", arg_list, processed_result)
    /\ UNCHANGED <<method, parameters, pre_kind, sampler, initial_iter, n_iter, run_loc,
                   raw_args, arg_list, results, processed_result, registered>>
    /\ UNCHANGED <<next_point, population, store_parameters, store_fitness,
                   generations_completed>>
    /\ UNCHANGED <<optVars, batchVars, gridVars, derivVars, pluginVars>>


\* the fields of the method object and the arguments of run
sweepConfig == <<method, parameters, pre_kind, sampler, initial_iter, n_iter>>

\* the state of the genetic algorithm
gaVars == <<population, store_parameters, store_fitness, generations_completed>>

\* MethodSample._eval_run: one call of pre_fn of the first loop (either branch)
PreFn ==
    /\ s_pc = "pre"
    /\ LET arg_dict == arg_list[Len(results) + 1]
       IN  /\ calls' = Append(calls, arg_dict)
           /\ results' = Append(results, pre_fn(arg_dict))
    /\ s_pc' = IF Len(results') < Len(arg_list) THEN "pre"
               ELSE IF run_loc = "local" THEN "post" ELSE "batch"
    /\ UNCHANGED <<sweepConfig, gaVars, run_loc, raw_args, next_point, arg_list,
                   processed_result, registered, outcome>>
    /\ UNCHANGED <<optVars, batchVars, gridVars, derivVars, pluginVars>>

\* pre_fn raises for the point it is called with, in any method
PreFnFails ==
    /\ s_pc \in {"pre", "bo_pre", "ga_pre"}
    /\ calls' = Append(calls, IF s_pc = "pre" THEN arg_list[Len(results) + 1]
                              ELSE next_point)
    /\ s_pc' = "raised"
    /\ outcome' = run_raises("pre_fn", arg_list, processed_result)
    /\ UNCHANGED <<sweepConfig, gaVars, run_loc, raw_args, next_point, arg_list, results,
                   processed_result, registered>>
    /\ UNCHANGED <<optVars, batchVars, gridVars, derivVars, pluginVars>>

\* self._tidy3d_run(sims, run_kwargs) returns the data of the simulations
RunBatch ==
    /\ s_pc \in {"batch", "bo_batch"}
    /\ results' = [i \in DOMAIN results |-> SimulationData(results[i])]
    /\ s_pc' = IF s_pc = "batch" THEN "post" ELSE "bo_post"
    /\ UNCHANGED <<sweepConfig, gaVars, run_loc, raw_args, next_point, arg_list, calls,
                   processed_result, registered, outcome>>
    /\ UNCHANGED <<optVars, batchVars, gridVars, derivVars, pluginVars>>

\* MethodSample._eval_run: one call of post_fn of the second loop
PostFn ==
    /\ s_pc = "post"
    /\ processed_result' =
          Append(processed_result, post_fn(results[Len(processed_result) + 1]))
    /\ s_pc' = IF Len(processed_result') < Len(results) THEN "post" ELSE "return"
    /\ UNCHANGED <<sweepConfig, gaVars, run_loc, raw_args, next_point, arg_list, calls,
                   results, registered, outcome>>
    /\ UNCHANGED <<optVars, batchVars, gridVars, derivVars, pluginVars>>

\* post_fn raises for the output it is called with, in any method
PostFnFails ==
    /\ s_pc \in {"post", "bo_post", "ga_post"}
    /\ s_pc' = "raised"
    /\ outcome' = run_raises("post_fn", arg_list, processed_result)
    /\ UNCHANGED <<sweepConfig, gaVars, run_loc, raw_args, next_point, arg_list, calls,
                   results, processed_result, registered>>
    /\ UNCHANGED <<optVars, batchVars, gridVars, derivVars, pluginVars>>

\* [val for arr in arrs for val in arr]
RECURSIVE flatten(_)
flatten(arrs) == IF arrs = <<>> THEN <<>> ELSE Head(arrs) \o flatten(Tail(arrs))

\* what the methods hand back: MethodSample.run (fn_args, results),
\* MethodBayOpt.run the parameters and targets of opt.res, MethodGenAlg.run the
\* flattened module globals
run_result ==
    IF method \in SampleMethods THEN <<arg_list, processed_result>>
    ELSE IF method = "MethodBayOpt" THEN <<DictKeys(registered), DictValues(registered)>>
    ELSE <<[i \in DOMAIN flatten(store_parameters) |->
               [d \in DOMAIN parameters |->
                   <<parameters[d].name, flatten(store_parameters)[i][d]>>]],
           flatten(store_fitness)>>

RunReturns ==
    /\ s_pc = "return"
    /\ s_pc' = "returned"
    /\ outcome' = Returns(run_result)
    /\ UNCHANGED <<sweepConfig, gaVars, run_loc, raw_args, next_point, arg_list, calls,
                   results, processed_result, registered>>
    /\ UNCHANGED <<optVars, batchVars, gridVars, derivVars, pluginVars>>


\* the largest value of initial_iter and of n_iter
MaxIter == 2

\* values opt.suggest may give a parameter: floats within pbounds, its span
SuggestValues(param) ==
    {v \in RawValues(param) :
        param.span[1].tenths <= v.tenths /\ v.tenths <= param.span[2].tenths}

\* the points opt.suggest(utility) may return
SuggestPoints(prms) ==
    {pt \in RawPoints(prms) :
        \A d \in DOMAIN prms : pt[d][2] \in SuggestValues(prms[d])}

\* every point is registered as soon as it is evaluated
InInitialBlock_never == FALSE

\* MethodBayOpt.run is in its block of initial random samples
InInitialBlock == Len(registered) < initial_iter

\* MethodBayOpt.run: opt.suggest followed by _force_int
Suggest(raw) ==
    /\ s_pc = "suggest"
    /\ raw \in SuggestPoints(parameters)
    /\ raw_args' = Append(raw_args, raw)
    /\ next_point' = force_int(raw, parameters)
    /\ arg_list' = IF InInitialBlock THEN Append(arg_list, next_point') ELSE arg_list
    /\ s_pc' = "bo_pre"
    /\ UNCHANGED <<sweepConfig, gaVars, run_loc, calls, results, processed_result,
                   registered, outcome>>
    /\ UNCHANGED <<optVars, batchVars, gridVars, derivVars, pluginVars>>

\* MethodBayOpt.run: pre_fn(**next_point)
BayOptPre ==
    /\ s_pc = "bo_pre"
    /\ calls' = Append(calls, next_point)
    /\ results' = Append(results, pre_fn(next_point))
    /\ s_pc' = IF run_loc = "local" THEN "bo_post"
               ELSE IF InInitialBlock /\ Len(arg_list) < initial_iter THEN "suggest"
               ELSE "bo_batch"
    /\ UNCHANGED <<sweepConfig, gaVars, run_loc, raw_args, next_point, arg_list,
                   processed_result, registered, outcome>>
    /\ UNCHANGED <<optVars, batchVars, gridVars, derivVars, pluginVars>>

\* zip(arg_list, init_output)
zip(xs, ys) == [i \in DOMAIN xs |-> <<xs[i], ys[i]>>]

\* MethodBayOpt.run: post_fn of the oldest output not yet post-processed, and
\* the opt.register calls that follow it
BayOptPost ==
    /\ s_pc = "bo_post"
    /\ LET next_out == post_fn(Head(results))
       IN  IF InInitialBlock /\ run_loc = "local"
           THEN /\ processed_result' = Append(processed_result, next_out)
                /\ registered' = IF Len(arg_list) = initial_iter
                                 THEN zip(arg_list, processed_result')
                                 ELSE registered
           ELSE /\ processed_result' = processed_result
                /\ registered' =
                      Append(registered,
                             <<IF InInitialBlock THEN arg_list[Len(registered) + 1]
                               ELSE next_point,
                               next_out>>)
    /\ results' = Tail(results)
    /\ s_pc' = IF results' # <<>> THEN "bo_post"
               ELSE IF Len(registered') = initial_iter + n_iter THEN "return"
               ELSE "suggest"
    /\ UNCHANGED <<sweepConfig, gaVars, run_loc, raw_args, next_point, arg_list, calls,
                   outcome>>
    /\ UNCHANGED <<optVars, batchVars, gridVars, derivVars, pluginVars>>


\* the number of generations and of solutions per population the model runs
\* (num_generations and sol_per_pop of MethodGenAlg.run, cut down)
MaxGenerations == 1

MaxPop == 1

\* the parameter tuples handed to MethodGenAlg.run
GaParamTuples ==
    ParamTuples \cup
    {<<ParameterFloat("x", 0, 10), ParameterInt("n", 0, 1),
       ParameterInt("m", 2, 3), ParameterFloat("y", 0, 10)>>}

\* gene_spaces of MethodGenAlg.run: the values pygad draws a gene from; the
\* population is a float array
gene_space(param) ==
    IF param.type = "ParameterInt"
    THEN {Float(Tenth * k) :
            k \in param.span[1].tenths \div Tenth .. param.span[2].tenths \div Tenth}
    ELSE SuggestValues(param)

\* the solutions pygad draws from gene_spaces, as rows of genes
Solutions(prms) ==
    {w \in [DOMAIN prms -> UNION {gene_space(prms[d]) : d \in DOMAIN prms}] :
        \A d \in DOMAIN prms : w[d] \in gene_space(prms[d])}

\* mutation_type = "inversion": the genes g1+1 .. g1+Len(sol)/2 of a solution
\* are put in reverse order
inversion_mutation(sol, g1) ==
    LET g2 == g1 + Len(sol) \div 2
    IN  [d \in DOMAIN sol |-> IF g1 < d /\ d <= g2 THEN sol[g1 + g2 + 1 - d] ELSE sol[d]]

\* the first gene pygad may pick: randint(0, ceil(n / 2 + 1))
MutationStarts(n) == 0 .. (n + 1) \div 2

\* dict(zip(_param_keys, sol))
dict_sol(sol, prms) == [d \in DOMAIN sol |-> <<prms[d].name, sol[d]>>]


\* MethodGenAlg.run up to ga_instance.run(): the module globals are reset and
\* pygad draws the initial population pop from gene_spaces
GaStart(pop) ==
    /\ s_pc = "constructed" /\ method = "MethodGenAlg"
    /\ pop \in [1 .. MaxPop -> Solutions(parameters)]
    /\ population' = pop
    /\ store_parameters' = <<>> /\ store_fitness' = <<>>
    /\ generations_completed' = 0
    /\ next_point' = dict_sol(pop[1], parameters)
    /\ s_pc' = "ga_pre"
    /\ UNCHANGED <<sweepConfig, run_loc, raw_args, arg_list, calls, results,
                   processed_result, registered, outcome>>
    /\ UNCHANGED <<optVars, batchVars, gridVars, derivVars, pluginVars>>

\* fitness_function: pre_fn(**dict_sol) of the next solution of the batch
GaPre ==
    /\ s_pc = "ga_pre"
    /\ calls' = Append(calls, next_point)
    /\ results' = <<pre_fn(next_point)>>
    /\ s_pc' = "ga_post"
    /\ UNCHANGED <<sweepConfig, gaVars, run_loc, raw_args, next_point, arg_list,
                   processed_result, registered, outcome>>
    /\ UNCHANGED <<optVars, batchVars, gridVars, derivVars, pluginVars>>

\* fitness_function: post_fn of that output, appended to sol_out
GaPost ==
    /\ s_pc = "ga_post"
    /\ processed_result' = Append(processed_result, post_fn(Head(results)))
    /\ results' = <<>>
    /\ IF Len(processed_result') < Len(population)
       THEN /\ next_point' = dict_sol(population[Len(processed_result') + 1], parameters)
            /\ s_pc' = "ga_pre"
       ELSE /\ next_point' = next_point
            /\ s_pc' = IF generations_completed = 0 THEN "ga_loop" ELSE "ga_on_generation"
    /\ UNCHANGED <<sweepConfig, gaVars, run_loc, raw_args, arg_list, calls, registered,
                   outcome>>
    /\ UNCHANGED <<optVars, batchVars, gridVars, derivVars, pluginVars>>

\* one pass of the loop of ga_instance.run(): every solution of the new
\* population is a solution of the old one after the inversion mutation
GaNextGeneration(parent, g1) ==
    /\ s_pc = "ga_loop"
    /\ \A i \in DOMAIN population : g1[i] \in MutationStarts(Len(parameters))
    /\ population' = [i \in DOMAIN population |->
                         inversion_mutation(population[parent[i]], g1[i])]
    /\ generations_completed' = generations_completed + 1
    /\ processed_result' = <<>>
    /\ next_point' = dict_sol(population'[1], parameters)
    /\ s_pc' = "ga_pre"
    /\ UNCHANGED <<sweepConfig, store_parameters, store_fitness, run_loc, raw_args,
                   arg_list, calls, results, registered, outcome>>
    /\ UNCHANGED <<optVars, batchVars, gridVars, derivVars, pluginVars>>

\* on_generation: the population and its fitness are appended to the globals
OnGeneration ==
    /\ s_pc = "ga_on_generation"
    /\ store_parameters' = Append(store_parameters, population)
    /\ store_fitness' = Append(store_fitness, processed_result)
    /\ s_pc' = IF generations_completed < MaxGenerations THEN "ga_loop" ELSE "return"
    /\ UNCHANGED <<sweepConfig, population, generations_completed, run_loc, raw_args,
                   next_point, arg_list, calls, results, processed_result, registered,
                   outcome>>
    /\ UNCHANGED <<optVars, batchVars, gridVars, derivVars, pluginVars>>

\* a sweep is about to be constructed and run
SweepInit ==
    /\ OthersIdle /\ GridIdle /\ DerivIdle /\ PluginIdle
    /\ s_pc = "new"
    /\ method \in SampleMethods \cup {"MethodBayOpt", "MethodGenAlg"}
    /\ parameters \in IF method = "MethodGenAlg" THEN GaParamTuples ELSE ParamTuples
    /\ pre_kind \in PreKinds
    /\ sampler \in IF method = "MethodRandomCustom" THEN Samplers ELSE {NoSampler}
    /\ initial_iter \in IF method = "MethodBayOpt" THEN 1 .. MaxIter ELSE {0}
    /\ n_iter \in IF method = "MethodBayOpt" THEN 1 .. MaxIter ELSE {0}
    /\ run_loc = "None"
    /\ raw_args = <<>> /\ arg_list = <<>> /\ calls = <<>> /\ results = <<>>
    /\ next_point = <<>> /\ population = <<>>
    /\ store_parameters = <<>> /\ store_fitness = <<>> /\ generations_completed = 0
    /\ processed_result = <<>> /\ registered = <<>> /\ outcome = Pending

SweepNext ==
    \/ Construct
    \/ \E raw \in UNION {RawArgLists(prms) : prms \in ParamTuples} : Assemble(raw)
    \/ GetSamplerFails
    \/ CheckPreOutput
    \/ CheckPreOutputFails
    \/ PreFn
    \/ PreFnFails
    \/ RunBatch
    \/ PostFn
    \/ PostFnFails
    \/ \E raw \in UNION {SuggestPoints(prms) : prms \in ParamTuples} : Suggest(raw)
    \/ BayOptPre
    \/ BayOptPost
    \/ \E pop \in UNION {[1 .. MaxPop -> Solutions(prms)] : prms \in GaParamTuples} :
          GaStart(pop)
    \/ GaPre
    \/ GaPost
    \/ \E parent \in [1 .. MaxPop -> 1 .. MaxPop],
          g1 \in [1 .. MaxPop -> MutationStarts(MaxParams + 1)] :
          GaNextGeneration(parent, g1)
    \/ OnGeneration
    \/ RunReturns

SpecSweep == SweepInit /\ [][SweepNext]_vars


\* the value stored for a parameter is the sampled value v rounded to a
\* nearest integer and then clamped into the span, as a Python int, or v itself
\* for a parameter that is no integer parameter
RoundedAndClamped(stored, v, param) ==
    IF param.type = "ParameterInt"
    THEN /\ stored.type = "int"
         /\ stored.tenths % Tenth = 0
         /\ param.span[1].tenths <= stored.tenths
         /\ stored.tenths <= param.span[2].tenths
         /\ \E n \in (v.tenths \div Tenth) .. (v.tenths \div Tenth) + 1 :
               /\ 2 * (IF n * Tenth >= v.tenths THEN n * Tenth - v.tenths
                       ELSE v.tenths - n * Tenth) <= Tenth
               /\ stored = IF n * Tenth < param.span[1].tenths THEN param.span[1]
                           ELSE IF n * Tenth > param.span[2].tenths THEN param.span[2]
                           ELSE PyInt(n)
    ELSE stored = v

\* C13: for every integer parameter with span [lo, hi] and every sampled value
\* v, _force_int stores v rounded to the nearest integer and clamped into
\* [lo, hi], an integer within the span; with span [0, 5], 2.6 becomes 3, -1
\* becomes 0 and 7 becomes 5; values of other parameters are left unchanged.
C13_ForceIntRoundsAndClamps ==
    /\ force_int_value(Float(26), ParameterInt("n", 0, 5)) = PyInt(3)
    /\ force_int_value(Float(0 - 10), ParameterInt("n", 0, 5)) = PyInt(0)
    /\ force_int_value(Float(70), ParameterInt("n", 0, 5)) = PyInt(5)
    /\ method \in SampleMethods =>
          \A i \in DOMAIN arg_list : \A d \in DOMAIN parameters :
              RoundedAndClamped(arg_list[i][d][2], raw_args[i][d][2], parameters[d])
    /\ method = "MethodBayOpt" /\ s_pc = "bo_pre" =>
          \A d \in DOMAIN parameters :
              RoundedAndClamped(next_point[d][2], raw_args[Len(raw_args)][d][2],
                                parameters[d])

\* a sweep over a float and an integer parameter whose samples 2.6 and 7 for
\* the integer parameter were stored as 3 and 5, the float 0.3 as sampled
C13_Witness ==
    /\ s_pc = "returned" /\ method = "MethodMonteCarlo"
    /\ Len(parameters) = 2 /\ Len(raw_args) = 2
    /\ DictValues(raw_args[1]) = <<Float(3), Float(26)>>
    /\ DictValues(raw_args[2]) = <<Float(3), Float(70)>>
    /\ DictValues(arg_list[1]) = <<Float(3), PyInt(3)>>
    /\ DictValues(arg_list[2]) = <<Float(3), PyInt(5)>>


\* the value is a whole number within the span of the integer parameter
IntegerInSpan(v, param) ==
    /\ v.tenths % Tenth = 0
    /\ param.span[1].tenths <= v.tenths
    /\ v.tenths <= param.span[2].tenths

\* C14: in every sampling method, every call of the user's evaluation function
\* receives, for each integer parameter, a value already rounded to an integer
\* and clamped into that parameter's span.
C14_ForcedBeforeEvaluation ==
    \A c \in DOMAIN calls : \A d \in DOMAIN parameters :
        parameters[d].type = "ParameterInt" => IntegerInSpan(calls[c][d][2], parameters[d])


\* C15: if pre_fn or post_fn raises for any point of a sweep, Method.run raises
\* that error to the caller and returns no partial results for the points
\* evaluated earlier in the same sweep, in every sampling method.
C15_FailureIsFatal ==
    /\ s_pc = "raised" =>
          /\ outcome.kind = "raised"
          /\ outcome.exc \in {"pre_fn", "post_fn", "ValueError", "AttributeError"}
          /\ outcome.value = <<>>
    /\ outcome.kind = "returned" => s_pc = "returned"

\* post_fn raised for the second point of a grid sweep after the first point
\* was evaluated and post-processed
C15_Witness ==
    /\ s_pc = "raised" /\ method = "MethodGrid"
    /\ outcome.exc = "post_fn"
    /\ Len(arg_list) = 2 /\ Len(calls) >= 2 /\ Len(processed_result) = 1


\* sampler.random(n) returns an ndarray of shape (n, d), d the number of design
\* parameters, with all values in [0, 1]
SamplerIsValid(val, prms) ==
    /\ ~val.is_none /\ val.has_random /\ val.is_ndarray
    /\ val.ndim = 2 /\ val.rows_n /\ val.d = Len(prms)
    /\ val.in_01

\* C16: MethodRandomCustom never evaluates the user's function with points
\* from a sampler that was not checked to return an (n, d) array with d the
\* number of design parameters and all values in [0, 1]; a sampler failing a
\* check, or a missing sampler, is rejected with a ValueError before any
\* evaluation.
C16_SamplerValidated ==
    method = "MethodRandomCustom" =>
        /\ calls # <<>> => SamplerIsValid(sampler, parameters)
        /\ ~SamplerIsValid(sampler, parameters) /\ s_pc \notin {"new", "constructed"} =>
              /\ s_pc = "raised"
              /\ outcome = Raise("ValueError")
              /\ calls = <<>>


(***************************************************************************)
(* DerivativeInfo (components/autograd/derivative_utils.py).  Floats are   *)
(* modelled as exact fractions, with NaN as a value of its own.            *)
(***************************************************************************)
RECURSIVE gcd(_, _)
gcd(a, b) == IF b = 0 THEN a ELSE gcd(b, a % b)

abs(a) == IF a < 0 THEN 0 - a ELSE a

\* the float num/den in lowest terms, den > 0
Frac(num, den) ==
    LET g == gcd(abs(num), abs(den))
        sgn == IF den < 0 THEN 0 - 1 ELSE 1
    IN  [nan |-> FALSE, num |-> sgn * (num \div g), den |-> sgn * (den \div g)]

NaN == [nan |-> TRUE, num |-> 0, den |-> 1]

Num(n) == Frac(n, 1)

\* float arithmetic: NaN in, NaN out; a division by zero gives NaN or an
\* infinity, which the sums below turn into NaN
add(a, b) ==
    IF a.nan \/ b.nan THEN NaN ELSE Frac(a.num * b.den + b.num * a.den, a.den * b.den)

neg(a) == IF a.nan THEN NaN ELSE Frac(0 - a.num, a.den)

sub(a, b) == add(a, neg(b))

mul(a, b) == IF a.nan \/ b.nan THEN NaN ELSE Frac(a.num * b.num, a.den * b.den)

div(a, b) ==
    IF a.nan \/ b.nan \/ b.num = 0 THEN NaN ELSE Frac(a.num * b.den, a.den * b.num)

\* the sum of the entries of a sequence of floats
RECURSIVE sum(_)
sum(xs) == IF xs = <<>> THEN Num(0) ELSE add(Head(xs), sum(Tail(xs)))



\* the spatial axes, in the order of the columns of spatial_coords
Dims == <<"x", "y", "z">>

\* a ScalarFieldDataArray: the coordinates of its spatial axes, the number of
\* its frequencies, and a value for every index <<ix, iy, iz, if>>; the value
\* at the first node is base and grows by slope with every step along an axis
FieldArray(cx, cy, cz, nf, base, slope) ==
    [x |-> cx, y |-> cy, z |-> cz, nf |-> nf,
     values |-> [idx \in (1 .. Len(cx)) \X (1 .. Len(cy)) \X (1 .. Len(cz)) \X (1 .. nf) |->
                    Num(base + slope * ((idx[1] - 1) + (idx[2] - 1) + (idx[3] - 1)))]]

\* np.searchsorted(grid, q): the number of grid points below q
searchsorted(grid, q) == Cardinality({k \in DOMAIN grid : grid[k] < q})

\* the grid cell the interpolator evaluates q in: its lower and upper node.
\* The cell index is clipped to the first and last cell; on a one-sample axis
\* both nodes are the only sample
cell_lo(grid, q) ==
    IF Len(grid) = 1 THEN 1
    ELSE LET i == searchsorted(grid, q)
         IN  IF i < 1 THEN 1 ELSE IF i > Len(grid) - 1 THEN Len(grid) - 1 ELSE i

cell_hi(grid, q) == IF Len(grid) = 1 THEN 1 ELSE cell_lo(grid, q) + 1

\* the position of q within its cell, (q - grid[lo]) / (grid[hi] - grid[lo]):
\* it is not clipped, so with fill_value=None a query outside the grid is
\* extrapolated from the end cell.  On a one-sample axis the denominator is 0:
\* the build's interpolator yields NaN or takes the distance as 0
norm_distance(grid, q) ==
    IF Len(grid) = 1 THEN (IF scipy_size1 = "nan" THEN NaN ELSE Num(0))
    ELSE LET lo == cell_lo(grid, q)
         IN  Frac(q - grid[lo], grid[lo + 1] - grid[lo])

\* the weight of node k of an axis: the linear weights of the two nodes of the
\* cell on an interpolated axis, 1 for every node of a summed axis
weight(grid, q, k, interpolated) ==
    IF ~interpolated THEN Num(1)
    ELSE LET t == norm_distance(grid, q)
         IN  add(IF k = cell_lo(grid, q) THEN sub(Num(1), t) ELSE Num(0),
                 IF k = cell_hi(grid, q) THEN t ELSE Num(0))

\* arr.interp(**interp_kwargs, assume_sorted=True, kwargs=dict(fill_value=None))
\* .sum("f").sum(sum_dims) at the point q: multilinear interpolation along the
\* axes of kw, sums over the others and over the frequencies
interp_sum(arr, q, kw) ==
    sum([ix \in 1 .. Len(arr.x) |->
        mul(weight(arr.x, q[1], ix, "x" \in kw),
            sum([iy \in 1 .. Len(arr.y) |->
                mul(weight(arr.y, q[2], iy, "y" \in kw),
                    sum([iz \in 1 .. Len(arr.z) |->
                        mul(weight(arr.z, q[3], iz, "z" \in kw),
                            sum([fi \in 1 .. arr.nf |->
                                    arr.values[<<ix, iy, iz, fi>>]]))]))]))])


\* the field components of a dataset
FldNames == <<"Ex", "Ey", "Ez">>

\* a dataset whose component c is FieldArray(.., vec[c], slope)
FieldData(cx, cy, cz, nf, vec, slope) ==
    [c \in {"Ex", "Ey", "Ez"} |->
        FieldArray(cx, cy, cz, nf,
                   vec[CHOOSE k \in DOMAIN FldNames : FldNames[k] = c], slope)]

\* the loop over "xyz" of evaluate_flds_at: the test for one-sample axes is
\* switched off by its leading "False and", so no axis is ever summed
single_sample_dims(fld_dataset) ==
    {Dims[k] : k \in {j \in DOMAIN Dims :
        FALSE /\ \E c \in DOMAIN fld_dataset : Len(fld_dataset[c][Dims[j]]) = 1}}

\* DerivativeInfo.evaluate_flds_at: one value per component and query point
evaluate_flds_at(fld_dataset, spatial_coords) ==
    LET kw == {Dims[k] : k \in DOMAIN Dims} \ single_sample_dims(fld_dataset)
    IN  [c \in DOMAIN fld_dataset |->
            [e \in DOMAIN spatial_coords |->
                interp_sum(fld_dataset[c], spatial_coords[e], kw)]]

\* DerivativeInfo.project_in_basis
project_in_basis(der_dataset, basis_vector) ==
    [e \in DOMAIN basis_vector |->
        add(add(add(Num(0), mul(Num(basis_vector[e][1]), der_dataset["Ex"][e])),
                mul(Num(basis_vector[e][2]), der_dataset["Ey"][e])),
            mul(Num(basis_vector[e][3]), der_dataset["Ez"][e]))]

\* DerivativeInfo.delta_eps
delta_eps(self) == sub(self.eps_in, self.eps_out)

\* the two reciprocals are subtracted the other way round
delta_eps_inv_swapped(self) ==
    sub(div(Num(1), self.eps_out), div(Num(1), self.eps_in))

\* DerivativeInfo.delta_eps_inv
delta_eps_inv(self) ==
    sub(div(Num(1), self.eps_in), div(Num(1), self.eps_out))

\* DerivativeInfo.grad_surfaces
grad_surfaces(self, mesh) ==
    LET spatial_coords == mesh.centers
        E_fwd_at_coords == evaluate_flds_at(self.E_fwd, spatial_coords)
        E_adj_at_coords == evaluate_flds_at(self.E_adj, spatial_coords)
        D_fwd_at_coords == evaluate_flds_at(self.D_fwd, spatial_coords)
        D_adj_at_coords == evaluate_flds_at(self.D_adj, spatial_coords)
        D_fwd_norm == project_in_basis(D_fwd_at_coords, mesh.normals)
        D_adj_norm == project_in_basis(D_adj_at_coords, mesh.normals)
        E_fwd_perp1 == project_in_basis(E_fwd_at_coords, mesh.perps1)
        E_adj_perp1 == project_in_basis(E_adj_at_coords, mesh.perps1)
        E_fwd_perp2 == project_in_basis(E_fwd_at_coords, mesh.perps2)
        E_adj_perp2 == project_in_basis(E_adj_at_coords, mesh.perps2)
        contrib_D(e) == mul(neg(delta_eps_inv(self)), mul(D_fwd_norm[e], D_adj_norm[e]))
        contrib_E1(e) == mul(mul(E_fwd_perp1[e], E_adj_perp1[e]), delta_eps(self))
        contrib_E2(e) == mul(mul(E_fwd_perp2[e], E_adj_perp2[e]), delta_eps(self))
    IN  [e \in DOMAIN spatial_coords |->
            mul(Num(mesh.areas[e]),
                add(add(add(Num(0), contrib_D(e)), contrib_E1(e)), contrib_E2(e)))]


\* the largest number of elements of a surface mesh
MaxElems == 1

\* coordinates of a spatial axis of the field data: one sample or two
AxisGrids == {<<0>>, <<0, 2>>}

\* the fields of the model: node value of D and of E per component, and the
\* growth of every component per grid step
FieldChoices ==
    {[D |-> <<0, 0, 2>>, E |-> <<0, 0, 0>>, slope |-> 0],
     [D |-> <<2, 0, 1>>, E |-> <<1, 2, 0>>, slope |-> 2]}

\* one surface element: its center, area, normal and two tangents
Element(center, area, normal, perp1, perp2) ==
    [center |-> center, area |-> area, normal |-> normal, perp1 |-> perp1, perp2 |-> perp2]

Elements ==
    {Element(c, 1, <<0, 0, 1>>, <<1, 0, 0>>, <<0, 1, 0>>) :
        c \in {<<0, 0, 0>>, <<1, 1, 1>>, <<3, 0, 1>>}}
    \cup {Element(<<1, 1, 1>>, 2, <<1, 0, 0>>, <<0, 1, 0>>, <<0, 0, 1>>)}

\* DerivativeSurfaceMesh of a sequence of elements
DerivativeSurfaceMesh(els) ==
    [centers |-> [e \in DOMAIN els |-> els[e].center],
     areas |-> [e \in DOMAIN els |-> els[e].area],
     normals |-> [e \in DOMAIN els |-> els[e].normal],
     perps1 |-> [e \in DOMAIN els |-> els[e].perp1],
     perps2 |-> [e \in DOMAIN els |-> els[e].perp2]]

Meshes == {DerivativeSurfaceMesh(els) : els \in UNION {[1 .. k -> Elements] : k \in 1 .. MaxElems}}

\* DerivativeInfo(...) of a structure: forward and adjoint fields are equal
DerivativeInfo(cx, cy, cz, nf, fc, eps_in) ==
    [paths |-> <<"center", "size">>,
     E_der_map |-> FieldData(cx, cy, cz, nf, fc.E, fc.slope),
     D_der_map |-> FieldData(cx, cy, cz, nf, fc.D, fc.slope),
     E_fwd |-> FieldData(cx, cy, cz, nf, fc.E, fc.slope),
     E_adj |-> FieldData(cx, cy, cz, nf, fc.E, fc.slope),
     D_fwd |-> FieldData(cx, cy, cz, nf, fc.D, fc.slope),
     D_adj |-> FieldData(cx, cy, cz, nf, fc.D, fc.slope),
     eps_data |-> FieldData(cx, cy, cz, nf, <<1, 1, 1>>, 0),
     eps_in |-> Num(eps_in),
     eps_out |-> Num(1),
     bounds |-> <<<<0, 0, 0>>, <<2, 2, 2>>>>,
     bounds_intersect |-> <<<<0, 0, 0>>, <<2, 2, 2>>>>,
     frequency |-> Num(2),
     eps_approx |-> FALSE]

\* Tidy3dBaseModel.updated_copy(paths=paths): a new object, the field replaced
updated_copy(obj, paths) == [obj EXCEPT !.paths = paths]

\* the paths are written into the object itself, which is also handed back
updated_paths_in_place(h, self, paths) ==
    Append([h EXCEPT ![self] = updated_copy(h[self], paths)], updated_copy(h[self], paths))

\* DerivativeInfo.updated_paths: the objects after the call, the new one last
updated_paths(h, self, paths) == Append(h, updated_copy(h[self], paths))


\* the lists of paths handed to updated_paths
PathLists == {<<"center">>, <<"size">>}

\* a DerivativeInfo and a surface mesh have been created for a structure
DerivInit ==
    /\ OthersIdle /\ GridIdle /\ SweepIdle /\ PluginIdle
    /\ scipy_size1 \in {"nan", "zero"}
    /\ \E cx \in AxisGrids, cy \in AxisGrids, cz \in AxisGrids, nf \in {1, 2},
          fc \in FieldChoices, eps_in \in {2, 4} :
          infos = <<DerivativeInfo(cx, cy, cz, nf, fc, eps_in)>>
    /\ info_created = infos[1]
    /\ surface_mesh \in Meshes
    /\ interp_kwargs = {} /\ sum_dims = {}
    /\ components = [c \in {"Ex", "Ey", "Ez"} |-> <<>>]
    /\ vjps = <<>>
    /\ d_done = {}
    /\ paths_arg = <<>>

\* info.updated_paths(paths)
UpdatedPaths(paths) ==
    /\ "updated_paths" \notin d_done
    /\ infos' = updated_paths(infos, 1, paths)
    /\ paths_arg' = paths
    /\ d_done' = d_done \cup {"updated_paths"}
    /\ UNCHANGED <<scipy_size1, surface_mesh, interp_kwargs, sum_dims, components, vjps,
                   info_created>>
    /\ UNCHANGED <<optVars, batchVars, gridVars, sweepVars, pluginVars>>

\* info.grad_surfaces(surface_mesh)
GradSurfaces ==
    /\ "grad_surfaces" \notin d_done
    /\ vjps' = grad_surfaces(infos[1], surface_mesh)
    /\ d_done' = d_done \cup {"grad_surfaces"}
    /\ UNCHANGED <<scipy_size1, infos, surface_mesh, interp_kwargs, sum_dims, components,
                   info_created, paths_arg>>
    /\ UNCHANGED <<optVars, batchVars, gridVars, sweepVars, pluginVars>>

\* info.evaluate_flds_at(fld_dataset=info.E_fwd, spatial_coords=centers)
EvaluateFldsAt ==
    /\ "evaluate_flds_at" \notin d_done
    /\ sum_dims' = single_sample_dims(infos[1].E_fwd)
    /\ interp_kwargs' = {Dims[k] : k \in DOMAIN Dims} \ sum_dims'
    /\ components' = evaluate_flds_at(infos[1].E_fwd, surface_mesh.centers)
    /\ d_done' = d_done \cup {"evaluate_flds_at"}
    /\ UNCHANGED <<scipy_size1, infos, surface_mesh, vjps, info_created, paths_arg>>
    /\ UNCHANGED <<optVars, batchVars, gridVars, sweepVars, pluginVars>>

DerivNext ==
    \/ \E paths \in PathLists : UpdatedPaths(paths)
    \/ GradSurfaces
    \/ EvaluateFldsAt

SpecDeriv == DerivInit /\ [][DerivNext]_vars


\* the projection of the field of element e on the vector v
projected(flds, v, e) ==
    add(add(mul(Num(v[1]), flds["Ex"][e]), mul(Num(v[2]), flds["Ey"][e])),
        mul(Num(v[3]), flds["Ez"][e]))

\* dA * ( -(1/eps_in - 1/eps_out) * D_norm_prod + (eps_in - eps_out) * (E_tan_prod_1 + E_tan_prod_2) )
sensitivity(info, mesh, e) ==
    LET E_fwd == evaluate_flds_at(info.E_fwd, mesh.centers)
        E_adj == evaluate_flds_at(info.E_adj, mesh.centers)
        D_fwd == evaluate_flds_at(info.D_fwd, mesh.centers)
        D_adj == evaluate_flds_at(info.D_adj, mesh.centers)
        D_norm_prod == mul(projected(D_fwd, mesh.normals[e], e),
                           projected(D_adj, mesh.normals[e], e))
        E_tan_prod_1 == mul(projected(E_fwd, mesh.perps1[e], e),
                            projected(E_adj, mesh.perps1[e], e))
        E_tan_prod_2 == mul(projected(E_fwd, mesh.perps2[e], e),
                            projected(E_adj, mesh.perps2[e], e))
        d_eps == sub(info.eps_in, info.eps_out)
        d_eps_inv == sub(div(Num(1), info.eps_in), div(Num(1), info.eps_out))
    IN  mul(Num(mesh.areas[e]),
            add(neg(mul(d_eps_inv, D_norm_prod)),
                mul(d_eps, add(E_tan_prod_1, E_tan_prod_2))))

\* the field of element e is the vector vec
FieldAt(flds, e, vec) ==
    /\ flds["Ex"][e] = Num(vec[1])
    /\ flds["Ey"][e] = Num(vec[2])
    /\ flds["Ez"][e] = Num(vec[3])

\* the concrete case: a unit-area element with normal (0,0,1), eps_in = 4,
\* eps_out = 1, D_fwd = D_adj = (0,0,2) and no tangential field
ConcreteCase(info, mesh, e) ==
    /\ mesh.areas[e] = 1
    /\ mesh.normals[e] = <<0, 0, 1>>
    /\ info.eps_in = Num(4)
    /\ info.eps_out = Num(1)
    /\ FieldAt(evaluate_flds_at(info.D_fwd, mesh.centers), e, <<0, 0, 2>>)
    /\ FieldAt(evaluate_flds_at(info.D_adj, mesh.centers), e, <<0, 0, 2>>)
    /\ FieldAt(evaluate_flds_at(info.E_fwd, mesh.centers), e, <<0, 0, 0>>)
    /\ FieldAt(evaluate_flds_at(info.E_adj, mesh.centers), e, <<0, 0, 0>>)

\* C17: for every surface element, grad_surfaces returns
\* dA * ( -delta_eps_inv * D_norm_prod + delta_eps * (E_tan_prod_1 + E_tan_prod_2) )
\* with delta_eps = eps_in - eps_out and delta_eps_inv = 1/eps_in - 1/eps_out;
\* in the concrete case the value is 3
C17_SurfaceSensitivity ==
    "grad_surfaces" \in d_done =>
        /\ DOMAIN vjps = DOMAIN surface_mesh.centers
        /\ \A e \in DOMAIN vjps :
              /\ vjps[e] = sensitivity(infos[1], surface_mesh, e)
              /\ ConcreteCase(infos[1], surface_mesh, e) => vjps[e] = Num(3)

\* grad_surfaces has returned 3 for an element of the concrete case
C17_Witness ==
    /\ "grad_surfaces" \in d_done
    /\ \E e \in DOMAIN vjps :
          /\ ConcreteCase(infos[1], surface_mesh, e)
          /\ vjps[e] = Num(3)


\* the axes of the array with exactly one sample, and those with several
OneSampleAxes(arr) == {Dims[k] : k \in {j \in DOMAIN Dims : Len(arr[Dims[j]]) = 1}}

SeveralSampleAxes(arr) == {Dims[k] : k \in {j \in DOMAIN Dims : Len(arr[Dims[j]]) > 1}}

\* C18: for a field axis with exactly one sample, evaluate_flds_at does not
\* interpolate along that axis: whatever the query coordinate on that axis,
\* the result is the value the single sample gives, found without error
\* (never NaN) and without extrapolation
C18_OneSampleAxisIsConstant ==
    "evaluate_flds_at" \in d_done =>
        \A c \in DOMAIN components : \A e \in DOMAIN components[c] :
            LET arr == infos[1].E_fwd[c]
            IN  OneSampleAxes(arr) # {} =>
                    /\ ~components[c][e].nan
                    /\ components[c][e] =
                          interp_sum(arr, surface_mesh.centers[e], SeveralSampleAxes(arr))

\* the query point with every coordinate moved into the sampled range of its axis
clamped(arr, q) ==
    [k \in DOMAIN Dims |->
        LET grid == arr[Dims[k]]
        IN  IF q[k] < grid[1] THEN grid[1]
            ELSE IF q[k] > grid[Len(grid)] THEN grid[Len(grid)] ELSE q[k]]

\* the query lies outside the sampled range of an axis with several samples
OutOfRange(arr, q) ==
    \E k \in DOMAIN Dims :
        /\ Len(arr[Dims[k]]) > 1
        /\ q[k] < arr[Dims[k]][1] \/ q[k] > arr[Dims[k]][Len(arr[Dims[k]])]

\* C19: for a field axis with several samples, a query coordinate outside the
\* sampled range is answered with the value at the nearest boundary sample:
\* the result is the one of the query clamped into the range, never NaN and
\* never an extrapolation beyond the boundary values
C19_ClampToBoundary ==
    "evaluate_flds_at" \in d_done =>
        \A c \in DOMAIN components : \A e \in DOMAIN components[c] :
            LET arr == infos[1].E_fwd[c]
                q == surface_mesh.centers[e]
            IN  OutOfRange(arr, q) =>
                    /\ ~components[c][e].nan
                    /\ components[c][e] = interp_sum(arr, clamped(arr, q), SeveralSampleAxes(arr))


\* the fields of a DerivativeInfo other than paths
OtherFields ==
    {"E_der_map", "D_der_map", "E_fwd", "E_adj", "D_fwd", "D_adj", "eps_data",
     "eps_in", "eps_out", "bounds", "bounds_intersect", "frequency", "eps_approx"}

\* C20: a DerivativeInfo is never mutated: updated_paths(paths) returns a new
\* DerivativeInfo whose paths are the argument and whose every other field
\* equals the original's, and the original, its paths included, is unchanged
\* by the call and by grad_surfaces
C20_NeverMutated ==
    /\ infos[1] = info_created
    /\ "updated_paths" \in d_done =>
          /\ Len(infos) = 2
          /\ infos[2].paths = paths_arg
          /\ \A fld \in OtherFields : infos[2][fld] = info_created[fld]

\* updated_paths has returned a copy with other paths, grad_surfaces has run,
\* and the original still has the paths it was created with
C20_Witness ==
    /\ {"updated_paths", "grad_surfaces"} \subseteq d_done
    /\ Len(infos) = 2
    /\ infos[2].paths = paths_arg
    /\ infos[2].paths # info_created.paths
    /\ infos[1].paths = <<"center", "size">>


(***************************************************************************)
(* Further properties of the optimizer loop.                               *)
(***************************************************************************)
\* C23: within a step the new parameters and state are appended before the
\* history is persisted, and the history is persisted before the progress
\* callback is invoked, so the callback and the checkpoint of step k both see
\* the parameters and the transform state produced by step k: in a lineage
\* started by run(params0) they hold one more params and opt_state entry than
\* evaluations, and while the checkpoint of a step is being written the
\* callback has not yet been given that step's history.
C23_StepOrder ==
    /\ \A h \in Displayed \cup Checkpointed :
          h.ckpts = 0 =>
              /\ Len(h.params) = Len(h.objective_fn_val) + 1
              /\ Len(h.opt_state) = Len(h.objective_fn_val) + 1
    /\ \A r \in Runs : pc[r] = "save" => shown[r] # InverseDesignResult(heap[href[r]])

\* the histories that exist: working copies, returned results, the checkpoint
Histories == {heap[i] : i \in {j \in ObjIds : heap[j].exists}}

\* params[i+1] and opt_state[i+1] of h come from params[i], grad[i] and
\* opt_state[i] through one call of the gradient transform on the negated
\* gradient
StepFromPrevious(h, i) ==
    LET mu    == (h.opt_state[i].mu + (0 - h.grad[i])) \div 2
        nu    == (h.opt_state[i].nu + h.grad[i] * h.grad[i]) \div 2
        count == h.opt_state[i].count + 1
        m_hat == (mu * Pow2(count)) \div (Pow2(count) - 1)
        v_hat == (nu * Pow2(count)) \div (Pow2(count) - 1)
    IN  /\ i <= Len(h.grad)
        /\ h.opt_state[i + 1] = [mu |-> mu, nu |-> nu, count |-> count]
        /\ h.params[i + 1] =
              h.params[i] + (0 - learning_rate * m_hat) \div (ISqrt(v_hat) + 1)

\* C24: in every history reachable by run and continue_run, for every index i
\* with params[i+1] recorded, params[i+1] is params[i] plus the update the
\* gradient transform computes from the negated grad[i] and opt_state[i], and
\* opt_state[i+1] is the state returned by that call.
C24_NextParamsFromTransform ==
    \A h \in Histories :
        \A i \in 1 .. Len(h.params) - 1 : StepFromPrevious(h, i)

\* the five evaluation entries i of h are those of the objective at params[i]
EvaluatedAt(h, i) ==
    /\ h.objective_fn_val[i] = 0 - (h.params[i] - 2) * (h.params[i] - 2)
    /\ h.grad[i] = 0 - 2 * (h.params[i] - 2)
    /\ h.penalty[i] = (IF h.params[i] < 0 THEN 0 - h.params[i] ELSE h.params[i])
    /\ h.post_process_val[i] = h.objective_fn_val[i] + h.penalty[i]
    /\ h.simulation[i] = <<"sim", h.params[i]>>

\* C26: a history returned by run(params0) with N = num_steps holds N + 1
\* params and opt_state entries and N entries of each evaluation sequence,
\* entry i of the evaluation sequences being the evaluation at params[i];
\* params[N] is never evaluated.
C26_ReturnedHistoryShape ==
    \A r \in Runs :
        (Done(r) /\ src[r] = InitId) =>
            LET h == heap[RetId(r)]
                N == num_steps[r]
            IN  /\ Len(h.params) = N + 1
                /\ Len(h.opt_state) = N + 1
                /\ Len(h.objective_fn_val) = N /\ Len(h.grad) = N
                /\ Len(h.penalty) = N /\ Len(h.post_process_val) = N
                /\ Len(h.simulation) = N
                /\ h.params[1] = params0
                /\ \A i \in 1 .. N : EvaluatedAt(h, i)
                /\ nEvals[r] = N

\* run(params0) has returned a history of at least two steps
C26_Witness ==
    \E r \in Runs :
        /\ Done(r) /\ src[r] = InitId /\ num_steps[r] = MaxSteps
        /\ Len(heap[RetId(r)].params) = MaxSteps + 1
        /\ Len(heap[RetId(r)].grad) = MaxSteps


(***************************************************************************)
(* grad_surfaces on degenerate input.                                      *)
(***************************************************************************)
\* surface elements with a zero-length normal, with a tangent that is not
\* orthogonal to the normal, and a regular one
DegenerateElements ==
    {Element(<<1, 1, 1>>, 1, <<0, 0, 0>>, <<1, 0, 0>>, <<0, 1, 0>>),
     Element(<<1, 1, 1>>, 1, <<0, 0, 1>>, <<0, 0, 1>>, <<0, 1, 0>>),
     Element(<<1, 1, 1>>, 1, <<0, 0, 1>>, <<1, 0, 0>>, <<0, 1, 0>>)}

\* a DerivativeInfo whose eps_in may equal eps_out, and a mesh of one or two
\* elements some of which may be degenerate
DegenerateInit ==
    /\ OthersIdle /\ GridIdle /\ SweepIdle /\ PluginIdle
    /\ scipy_size1 \in {"nan", "zero"}
    /\ \E nf \in {1, 2}, fc \in FieldChoices, eps_in \in {1, 4} :
          infos = <<DerivativeInfo(<<0, 2>>, <<0, 2>>, <<0, 2>>, nf, fc, eps_in)>>
    /\ info_created = infos[1]
    /\ surface_mesh \in {DerivativeSurfaceMesh(els) :
                            els \in UNION {[1 .. k -> DegenerateElements] : k \in 1 .. 2}}
    /\ interp_kwargs = {} /\ sum_dims = {}
    /\ components = [c \in {"Ex", "Ey", "Ez"} |-> <<>>]
    /\ vjps = <<>>
    /\ d_done = {}
    /\ paths_arg = <<>>

SpecDegenerate == DegenerateInit /\ [][DerivNext]_vars

dot(u, v) == u[1] * v[1] + u[2] * v[2] + u[3] * v[3]

\* element e has a zero-length basis vector or basis vectors that are not
\* mutually orthogonal
DegenerateBasis(mesh, e) ==
    \/ \E v \in {mesh.normals[e], mesh.perps1[e], mesh.perps2[e]} : dot(v, v) = 0
    \/ dot(mesh.normals[e], mesh.perps1[e]) # 0
    \/ dot(mesh.normals[e], mesh.perps2[e]) # 0
    \/ dot(mesh.perps1[e], mesh.perps2[e]) # 0

\* eps_in equals eps_out, or one of them is zero
DegenerateContrast(info) ==
    \/ info.eps_in = info.eps_out
    \/ info.eps_in = Num(0)
    \/ info.eps_out = Num(0)

\* C21: grad_surfaces aborts with an error, and returns no sensitivities,
\* whenever a surface element has degenerate basis vectors or the
\* permittivity contrast is degenerate
C21_DegeneracyAborts ==
    ( \/ DegenerateContrast(infos[1])
      \/ \E e \in DOMAIN surface_mesh.centers : DegenerateBasis(surface_mesh, e) )
    => "grad_surfaces" \notin d_done


(***************************************************************************)
(* least_squares (plugins/autograd/functions.py): Gauss-Newton iteration   *)
(* on one parameter and one data sample, in exact fractions.               *)
(***************************************************************************)
\* largest value of max_iterations explored
MaxIterations == 3

\* the model functions: func(x, a) = a * x and func(x, a) = a * a * x
Funcs == {"linear", "square"}

\* func(x, *params)
func(f, x, a) ==
    IF f = "linear" THEN mul(a, x) ELSE mul(mul(a, a), x)

\* jac(params): the derivative of func(x, *params) by the parameter
jac(f, x, a) ==
    IF f = "linear" THEN x ELSE mul(mul(Num(2), a), x)

\* np.linalg.pinv of a 1 x 1 matrix: the reciprocal, 0 for the zero matrix
pinv(j) == IF j.num = 0 THEN Num(0) ELSE div(Num(1), j)

\* np.linalg.norm(delta) < tol
norm_below(d, tol) == abs(d.num) * tol.den < tol.num * d.den

\* a call least_squares(func, x, y, initial_guess, max_iterations, tol)
LsqInit ==
    /\ OthersIdle /\ GridIdle /\ SweepIdle /\ DerivIdle
    /\ CheckIdle /\ MidIdle /\ RaceIdle
    /\ ls_pc = "loop"
    /\ ls_func \in Funcs
    /\ ls_x = Num(1)
    /\ ls_y \in {Num(2), Num(9)}
    /\ ls_tol \in {Frac(1, 10), Frac(1, 100), Frac(1, 1000)}
    /\ max_iterations \in 1 .. MaxIterations
    /\ ls_params \in {Num(0), Num(1)}
    /\ ls_delta = Num(0)
    /\ ls_iterations = 0
    /\ ls_broke = FALSE

\* one pass of the loop body, lines 679-685
LsqIterate ==
    /\ ls_pc = "loop"
    /\ ls_iterations < max_iterations
    /\ LET residuals == sub(ls_y, func(ls_func, ls_x, ls_params))
           jacvec == jac(ls_func, ls_x, ls_params)
           pseudo_inv == pinv(jacvec)
           delta == mul(pseudo_inv, residuals)
       IN  /\ ls_delta' = delta
           /\ ls_params' = add(ls_params, delta)
           /\ ls_broke' = norm_below(delta, ls_tol)
           /\ ls_pc' = IF norm_below(delta, ls_tol) THEN "return" ELSE "loop"
    /\ ls_iterations' = ls_iterations + 1
    /\ UNCHANGED <<ls_func, ls_x, ls_y, ls_tol, max_iterations>>
    /\ UNCHANGED <<optVars, batchVars, gridVars, sweepVars, derivVars>>
    /\ UNCHANGED <<checkVars, midVars, raceVars>>

\* range(max_iterations) is exhausted: the loop ends
LsqExhausted ==
    /\ ls_pc = "loop"
    /\ ls_iterations >= max_iterations
    /\ ls_pc' = "return"
    /\ UNCHANGED <<ls_func, ls_x, ls_y, ls_tol, max_iterations, ls_params, ls_delta,
                   ls_iterations, ls_broke>>
    /\ UNCHANGED <<optVars, batchVars, gridVars, sweepVars, derivVars>>
    /\ UNCHANGED <<checkVars, midVars, raceVars>>

\* line 687: return params
LsqReturn ==
    /\ ls_pc = "return"
    /\ ls_pc' = "returned"
    /\ UNCHANGED <<ls_func, ls_x, ls_y, ls_tol, max_iterations, ls_params, ls_delta,
                   ls_iterations, ls_broke>>
    /\ UNCHANGED <<optVars, batchVars, gridVars, sweepVars, derivVars>>
    /\ UNCHANGED <<checkVars, midVars, raceVars>>

LsqNext == LsqIterate \/ LsqExhausted \/ LsqReturn

SpecLsq == LsqInit /\ [][LsqNext]_vars

\* C22: least_squares runs at most max_iterations iterations, stops as soon
\* as the norm of the parameter change is below tol, and raises
\* np.linalg.LinAlgError when it has not converged within max_iterations
\* iterations: it never returns unconverged parameters
C22_RaisesWhenNotConverged ==
    /\ ls_iterations <= max_iterations
    /\ ls_broke => ls_pc \in {"return", "returned"}
    /\ ls_pc = "returned" => ls_broke


(***************************************************************************)
(* Method._check_pre_output on every shape of value pre_fn can return.     *)
(* A Python value is a record: its type and, for a dict, its items as      *)
(* <<key, value>> pairs, for a list its elements.                          *)
(***************************************************************************)
\* longest dict or list among the values
MaxItems == 2

PySimulation == [type |-> "Simulation", items |-> <<>>]

PyOther == [type |-> "float", items |-> <<>>]

PyDict(vals) == [type |-> "dict", items |-> [i \in DOMAIN vals |-> <<ToString(i), vals[i]>>]]

PyList(vals) == [type |-> "list", items |-> vals]

SeqsUpTo(S, n) == UNION {[1 .. k -> S] : k \in 0 .. n}

\* what pre_fn may return: a Simulation, a dict, a list of dicts or of
\* anything else, empty containers, any other value
PreResults ==
    LET dicts == {PyDict(v) : v \in SeqsUpTo({PySimulation, PyOther}, MaxItems)}
    IN  {PySimulation, PyOther} \cup dicts
        \cup {PyList(v) : v \in SeqsUpTo({PySimulation, PyOther} \cup dicts, MaxItems)}

\* result[next(iter(result))] of a dict: StopIteration when it is empty
first_value_is_simulation(result) ==
    IF result.items = <<>> THEN Raise("StopIteration")
    ELSE IF result.items[1][2].type = "Simulation" THEN Returns("tidy3d")
    ELSE Raise("UnboundLocalError")

\* Method._check_pre_output, lines 112-138: run_loc is assigned in three of
\* the branches only, and return run_loc reads it in all of them
check_pre_output(calls_web, result) ==
    IF calls_web THEN Returns("local")
    ELSE IF result.type = "Simulation" THEN Returns("tidy3d")
    ELSE IF result.type = "dict" THEN first_value_is_simulation(result)
    ELSE IF result.type = "list"
         THEN IF result.items = <<>> THEN Raise("IndexError")
              ELSE IF result.items[1].type = "dict"
                   THEN first_value_is_simulation(result.items[1])
                   ELSE Raise("UnboundLocalError")
    ELSE Returns("local")

\* a pre_fn and the value it returns at the lower-bound point
CheckInit ==
    /\ OthersIdle /\ GridIdle /\ SweepIdle /\ DerivIdle
    /\ LsqIdle /\ MidIdle /\ RaceIdle
    /\ cp_pc = "call"
    /\ cp_calls_web \in BOOLEAN
    /\ cp_result \in PreResults
    /\ cp_outcome = Pending

\* self._check_pre_output(parameters, pre_fn)
CheckPreOutputCall ==
    /\ cp_pc = "call"
    /\ cp_outcome' = check_pre_output(cp_calls_web, cp_result)
    /\ cp_pc' = "done"
    /\ UNCHANGED <<cp_calls_web, cp_result>>
    /\ UNCHANGED <<optVars, batchVars, gridVars, sweepVars, derivVars>>
    /\ UNCHANGED <<lsqVars, midVars, raceVars>>

SpecCheck == CheckInit /\ [][CheckPreOutputCall]_vars

\* C27: _check_pre_output always returns "local" or "tidy3d" and never fails,
\* whatever pre_fn returns at the lower-bound point: a Simulation, a dict whose
\* values are or are not Simulations, a list of dicts of Simulations, a list
\* of anything else (an empty list included), or any other value
C27_AlwaysReturnsRunLoc ==
    cp_pc = "done" =>
        /\ cp_outcome.kind = "returned"
        /\ cp_outcome.value \in {"local", "tidy3d"}


(***************************************************************************)
(* DesignSpace._fn_mid on the structures a pre function can return: single *)
(* simulations, dicts and lists of them, nested dicts, keys with "_".      *)
(***************************************************************************)
Simulation(n) == [type |-> "Simulation", arg |-> n]

Batch(n) == [type |-> "Batch", arg |-> n]

Other == [type |-> "float", arg |-> 0]

\* what fn_pre returns for one argument mapping
PreOutputs ==
    <<Simulation(1),
      Other,
      Batch(1),
      Dict(<<<<<<"a">>, Simulation(1)>>, <<<<"b">>, Other>>>>),
      Dict(<<<<<<"my", "sim">>, Simulation(2)>>>>),
      Dict(<<<<<<"a">>, List(<<Simulation(1)>>)>>>>),
      Dict(<<<<<<"a">>, Dict(<<<<<<"b">>, Simulation(1)>>>>)>>>>),
      Dict(<<<<<<"a", "b">>, Simulation(1)>>,
             <<<<"a">>, Dict(<<<<<<"b">>, Simulation(2)>>>>)>>>>),
      List(<<Simulation(1)>>),
      List(<<Simulation(1), Simulation(2)>>),
      List(<<Dict(<<<<<<"a">>, Simulation(1)>>>>)>>)>>

\* sim_dict = {str(idx): fn_pre(**arg_list) ...} of fn_combined and the
\* sim_counter it passes on
MidInit ==
    /\ OthersIdle /\ GridIdle /\ SweepIdle /\ DerivIdle
    /\ LsqIdle /\ CheckIdle /\ RaceIdle
    /\ m_pc = "call"
    /\ \E n \in 1 .. MaxBatch :
           \E c \in [1 .. n -> DOMAIN PreOutputs] :
               m_pre_out = [i \in 1 .. n |-> <<Str(i - 1), PreOutputs[c[i]]>>]
    /\ m_counter \in {0, 1}
    /\ m_names = <<>>
    /\ m_outcome = Pending

\* data = self._fn_mid(sim_dict, sim_counter): the named simulations are
\* run as one Batch, whose data comes back by task name
FnMid ==
    /\ m_pc = "call"
    /\ LET named_sims == name_found(m_pre_out, m_counter).named_sims
           sims_out   == [i \in DOMAIN named_sims |->
                              <<named_sims[i][1], SimulationData(named_sims[i][2])>>]
       IN  /\ m_names' = DictKeys(named_sims)
           /\ m_outcome' = fn_mid(m_pre_out, m_counter, sims_out)
    /\ m_pc' = "done"
    /\ UNCHANGED <<m_pre_out, m_counter>>
    /\ UNCHANGED <<optVars, batchVars, gridVars, sweepVars, derivVars>>
    /\ UNCHANGED <<lsqVars, checkVars, raceVars>>

SpecMid == MidInit /\ [][FnMid]_vars

\* the input with every Simulation and Batch, at any depth of dicts and
\* lists, replaced by the result of running it
RECURSIVE all_run(_)
all_run(v) ==
    CASE v.type = "Simulation" -> SimulationData(v)
      [] v.type = "Batch" -> batch_run(v)
      [] v.type = "dict" ->
             Dict([i \in DOMAIN v.arg |-> <<v.arg[i][1], all_run(v.arg[i][2])>>])
      [] v.type = "list" -> List([i \in DOMAIN v.arg |-> all_run(v.arg[i])])
      [] OTHER -> v

\* C28: _fn_mid returns a structure of the shape of its input where every
\* Simulation and Batch, at top level or nested in dicts or lists, is replaced
\* at its own key path by the result of running it, every other entry
\* unchanged, for all string keys (keys containing "_" too), and the
\* simulations of one call are submitted under distinct task names
C28_EverySimulationReplacedInPlace ==
    m_pc = "done" =>
        /\ m_outcome.kind = "returned"
        /\ Dict(m_outcome.value) = all_run(Dict(m_pre_out))
        /\ \A i, j \in DOMAIN m_names : m_names[i] = m_names[j] => i = j


(***************************************************************************)
(* Two calls of MethodGenAlg.run in one process. _param_keys,              *)
(* _store_parameters and _store_fitness are globals of the module          *)
(* (lines 391-398): both calls read and write the same three objects.      *)
(***************************************************************************)
\* the two calls
GaRuns == {1, 2}

\* the parameters of a call
RaceParamTuples ==
    {<<ParameterInt("n", 0, 1)>>,
     <<ParameterInt("m", 2, 3), ParameterInt("k", 0, 1)>>}

\* dict(zip(_param_keys, val)): zip stops at the shorter of the two
dict_zip(keys, val) ==
    [i \in 1 .. (IF Len(keys) < Len(val) THEN Len(keys) ELSE Len(val)) |->
        <<keys[i], val[i]>>]

\* fitness_function(ga_instance, solution, solution_idx) on a batch
fitness_function(keys, solution) ==
    [i \in DOMAIN solution |-> post_fn(pre_fn(dict_zip(keys, solution[i])))]

\* fn_args, results of lines 446-447
format_output(keys, parameters_store, fitness_store) ==
    [fn_args |-> [i \in DOMAIN flatten(parameters_store) |->
                      dict_zip(keys, flatten(parameters_store)[i])],
     results |-> flatten(fitness_store)]

\* two calls are about to start, each with its parameters
RaceInit ==
    /\ OthersIdle /\ GridIdle /\ SweepIdle /\ DerivIdle
    /\ LsqIdle /\ CheckIdle /\ MidIdle
    /\ param_keys = <<>>
    /\ ga_pc = [r \in GaRuns |-> "start"]
    /\ ga_names \in [GaRuns -> {[d \in DOMAIN prms |-> prms[d].name] :
                                    prms \in RaceParamTuples}]
    /\ ga_gens = [r \in GaRuns |-> <<>>]
    /\ ga_ret = [r \in GaRuns |-> <<>>]

sweepRest ==
    <<s_pc, method, parameters, pre_kind, sampler, initial_iter, n_iter, run_loc, raw_args,
      next_point, population, generations_completed, arg_list, calls, results,
      processed_result, registered, outcome>>

\* lines 391-398: the globals are rebound
RaceReset(r) ==
    /\ ga_pc[r] = "start"
    /\ param_keys' = ga_names[r]
    /\ store_parameters' = <<>>
    /\ store_fitness' = <<>>
    /\ ga_pc' = [ga_pc EXCEPT ![r] = "run"]
    /\ UNCHANGED <<ga_names, ga_gens, ga_ret, sweepRest>>
    /\ UNCHANGED <<optVars, batchVars, gridVars, derivVars>>
    /\ UNCHANGED <<lsqVars, checkVars, midVars>>

\* one generation of ga_instance.run(): the fitness of the population pop
\* and on_generation, which appends both to the globals
RaceGeneration(r, pop) ==
    /\ ga_pc[r] = "run"
    /\ Len(pop[1]) = Len(ga_names[r])
    /\ LET last_generation_fitness == fitness_function(param_keys, pop)
       IN  /\ store_parameters' = Append(store_parameters, pop)
           /\ store_fitness' = Append(store_fitness, last_generation_fitness)
           /\ ga_gens' = [ga_gens EXCEPT ![r] = Append(@, pop)]
    /\ ga_pc' = [ga_pc EXCEPT ![r] = IF Len(ga_gens'[r]) < MaxGenerations
                                     THEN "run" ELSE "format"]
    /\ UNCHANGED <<param_keys, ga_names, ga_ret, sweepRest>>
    /\ UNCHANGED <<optVars, batchVars, gridVars, derivVars>>
    /\ UNCHANGED <<lsqVars, checkVars, midVars>>

\* lines 446-449: the globals are formatted and returned
RaceFormat(r) ==
    /\ ga_pc[r] = "format"
    /\ ga_ret' = [ga_ret EXCEPT
                      ![r] = format_output(param_keys, store_parameters, store_fitness)]
    /\ ga_pc' = [ga_pc EXCEPT ![r] = "returned"]
    /\ UNCHANGED <<param_keys, store_parameters, store_fitness, ga_names, ga_gens,
                   sweepRest>>
    /\ UNCHANGED <<optVars, batchVars, gridVars, derivVars>>
    /\ UNCHANGED <<lsqVars, checkVars, midVars>>

RaceNext ==
    \E r \in GaRuns :
        \/ RaceReset(r)
        \/ \E pop \in UNION {[1 .. MaxPop -> Solutions(prms)] : prms \in RaceParamTuples} :
               RaceGeneration(r, pop)
        \/ RaceFormat(r)

SpecRace == RaceInit /\ [][RaceNext]_vars

\* what a call returns when it runs alone
OwnOutput(r) ==
    format_output(ga_names[r], ga_gens[r],
                  [g \in DOMAIN ga_gens[r] |-> fitness_function(ga_names[r], ga_gens[r][g])])

\* C29: the (argument mapping, result) lists one MethodGenAlg.run call returns
\* hold only the populations and fitness values that call generated, keyed by
\* its own parameter names, under any interleaving with another call running
\* in the same process
C29_RunsShareNoState ==
    \A r \in GaRuns : ga_pc[r] = "returned" => ga_ret[r] = OwnOutput(r)


(***************************************************************************)
(* Calls of the user's pre_fn during MethodSample.run (SpecSweep).         *)
(***************************************************************************)
\* C30: during MethodSample.run in local mode pre_fn is called exactly once
\* per sampled argument mapping, in the order of the returned fn_args, and
\* with no other argument mapping; the returned results have the length of
\* fn_args and results[i] = post_fn(pre_fn(**fn_args[i]))
C30_PreFnOncePerSample ==
    (s_pc = "returned" /\ method \in SampleMethods /\ run_loc = "local") =>
        LET returned_args == outcome.value[1]
            returned_results == outcome.value[2]
        IN  /\ calls = returned_args
            /\ Len(returned_results) = Len(returned_args)
            /\ \A i \in DOMAIN returned_args :
                   returned_results[i] = post_fn(pre_fn(returned_args[i]))


(***************************************************************************)
(* Order of opt.suggest and opt.register in MethodBayOpt.run (SpecSweep).  *)
(***************************************************************************)
\* the points suggested so far, after _force_int
Suggested == [i \in DOMAIN raw_args |-> force_int(raw_args[i], parameters)]

\* the target registered for a point
Target(point) ==
    post_fn(IF run_loc = "local" THEN pre_fn(point) ELSE SimulationData(pre_fn(point)))

\* C25: in MethodBayOpt.run the initial_iter initial points are all suggested
\* while nothing is registered and are registered as one block after their
\* evaluation; each of the n_iter later points is suggested only when every
\* point evaluated before is registered, and is evaluated and registered
\* before the next suggestion; the run registers exactly initial_iter + n_iter
\* observations and returns them in registration order
C25_SuggestAfterRegister ==
    method = "MethodBayOpt" =>
        /\ Len(raw_args) < initial_iter => registered = <<>>
        /\ (Len(raw_args) = initial_iter /\ s_pc \in {"bo_pre", "bo_batch"}) =>
               registered = <<>>
        /\ (0 < Len(registered) /\ Len(registered) < initial_iter) =>
               /\ s_pc \in {"bo_post", "raised"}
               /\ Len(raw_args) = initial_iter
        /\ (s_pc = "suggest" /\ Len(raw_args) >= initial_iter) =>
               Len(registered) = Len(raw_args)
        /\ Len(raw_args) > initial_iter => Len(registered) >= Len(raw_args) - 1
        /\ \A i \in DOMAIN registered :
               registered[i] = <<Suggested[i], Target(Suggested[i])>>
        /\ s_pc = "returned" =>
               /\ Len(registered) = initial_iter + n_iter
               /\ outcome.value = <<DictKeys(registered), DictValues(registered)>>

\* a run on tidy3d with a block of several initial points and several later
\* points has returned
C25_Witness ==
    /\ method = "MethodBayOpt" /\ s_pc = "returned"
    /\ initial_iter = MaxIter /\ n_iter = MaxIter /\ run_loc = "tidy3d"

====
